---- MODULE Spec2Model ----
(***************************************************************************)
(* readlocally: an RSVP e-book reader.                                     *)
(*                                                                         *)
(* Two parts of the program are modelled, each under its own               *)
(* specification over the same variables:                                  *)
(*                                                                         *)
(*   Spec         the playback scheduler (rsvp-engine, createRsvpEngine):  *)
(*                one engine instance, the host's animation-frame queue    *)
(*                and clock, and the callbacks each operation emits;       *)
(*   ExtractSpec  the chapter extractor of the EPUB parser                 *)
(*                (extractChaptersWithNav and what it calls), applied to   *)
(*                bounded archives.                                        *)
(***************************************************************************)
EXTENDS Integers, Sequences, FiniteSets, TLC

(***************************************************************************)
(* Bounds of the model.                                                    *)
(***************************************************************************)
\* longest token stream handed to createRsvpEngine
MaxLen == 3
\* longest navigation point list handed to the extractor
MaxNav == 3
\* host clock (performance.now(), ms) when the engine is created
StartTime == 1000
\* the host clock is followed for this many ms after StartTime
Horizon == 400
\* longest chapter text handed to the tokenizer on its own
MaxTextLen == 3
\* longest chapter list, and largest wordCount, handed to the index conversions
MaxChapters == 3
MaxWords == 5
\* longest word handed to the recognition-point functions
MaxWordLength == 15

(***************************************************************************)
(* Small helpers.                                                          *)
(***************************************************************************)
Min(a, b) == IF a <= b THEN a ELSE b
Max(a, b) == IF a >= b THEN a ELSE b

(***************************************************************************)
(* Program state.                                                          *)
(***************************************************************************)
VARIABLES
    \* ---- createRsvpEngine closure ----
    tokens,            \* options.tokens: sequence of [hasSentenceEnd]
    currentIndex,      \* cursor, 0-based as in the source
    currentWpm,
    currentChunkSize,
    isPlaying,
    lastFrameTime,     \* 0 = "no frame seen since play()"
    accumulatedTime,
    animationFrameId,  \* 0 models null
    \* ---- host (browser) ----
    pendingFrames,     \* ids of requestAnimationFrame callbacks not yet run
    now,               \* host clock, ms
    \* ---- what the last operation did, as seen from outside ----
    lastOp,            \* name of the last operation the host ran
    lastArg,           \* its argument (0 when it has none)
    events,            \* callbacks the last operation invoked, in order
    returned,          \* <<v>> if it returned the value v, else <<>>
    raised,            \* TRUE iff the last operation threw
    \* ---- chapter extractor (ExtractSpec) ----
    archive,           \* the book handed to extractChaptersWithNav
    chapters,          \* its result
    phase,             \* "input" before the extraction, "done" after it,
                       \* "tokenized" once the chapters are tokenized
    \* ---- a call of one of the exported pure functions ----
    args,              \* the arguments it is called with
    \* ---- main.js: the application's state (<<>> models null) ----
    engine,            \* "null", or "created" once startReading has made one
    bookData,          \* <<>> or <<[chapters, totalWords]>>
    currentFile,       \* <<>> or <<the File>>
    currentFileHandle, \* <<>> or <<the FileSystemFileHandle>>
    lastPositionSaveTime,
    \* ---- localStorage ----
    savedBook,         \* rsvp_book_data: <<>> or <<[fileName, fileSize]>>
    savedPosition,     \* rsvp_reading_position: <<>> or <<[wordIndex, chapterIndex]>>
    preferences        \* rsvp_preferences: [wpm, chunkSize]

engineVars == <<tokens, currentIndex, currentWpm, currentChunkSize, isPlaying,
                lastFrameTime, accumulatedTime, animationFrameId,
                pendingFrames, now, lastOp, lastArg, events, returned, raised>>
extractVars == <<archive, chapters, phase>>
appVars == <<engine, bookData, currentFile, currentFileHandle,
             lastPositionSaveTime, savedBook, savedPosition, preferences>>
vars == <<engineVars, extractVars, args, appVars>>

(***************************************************************************)
(* Playback scheduler: createRsvpEngine.                                   *)
(*                                                                         *)
(* Each function of the closure is an operator from the engine's state     *)
(* (a record of the closure's variables, the host's frame queue, the       *)
(* callbacks invoked so far by the running operation and whether it has    *)
(* thrown) to the state it leaves.  Time is in integer milliseconds.       *)
(***************************************************************************)

\* Inputs the model draws from.  The rates divide 60000, so that
\* 60000 / currentWpm is exact in integers.
TokenStreams == UNION {[1..n -> [hasSentenceEnd : BOOLEAN]] : n \in 0..MaxLen}
RequestedWpm == {50, 300, 2000}
RequestedChunkSize == {0, 2, 9}
SeekTargets == -1..MaxLen
FrameSteps == {100, 300}

\* the value of tokens[i] for an index outside the array
Undefined == [undefined |-> TRUE]
TokenAt(i) == IF i >= 0 /\ i < Len(tokens) THEN tokens[i + 1] ELSE Undefined

\* callbacks, as records: which one, the cursor the callee observes through
\* getCurrentIndex(), the playing flag it observes (for onStateChange, its
\* argument), and for onWord the indices of the tokens in data.chunk
OnWord(idx, chunk) ==
    [cb |-> "onWord", index |-> idx, playing |-> FALSE, chunk |-> chunk]
OnProgress(idx) ==
    [cb |-> "onProgress", index |-> idx, playing |-> FALSE, chunk |-> <<>>]
OnStateChange(idx, playing) ==
    [cb |-> "onStateChange", index |-> idx, playing |-> playing, chunk |-> <<>>]
OnEnd(idx) ==
    [cb |-> "onEnd", index |-> idx, playing |-> FALSE, chunk |-> <<>>]

\* the engine as the running operation sees it
Cur ==
    [currentIndex |-> currentIndex, currentWpm |-> currentWpm,
     currentChunkSize |-> currentChunkSize, isPlaying |-> isPlaying,
     lastFrameTime |-> lastFrameTime, accumulatedTime |-> accumulatedTime,
     animationFrameId |-> animationFrameId, pendingFrames |-> pendingFrames,
     out |-> <<>>, ret |-> <<>>, raised |-> FALSE]

\* requestAnimationFrame returns an id no pending callback has and the engine
\* does not hold; ids are only ever compared for equality, so the smallest
\* such id stands for the browser's next one
requestAnimationFrame(s) ==
    LET id == CHOOSE n \in 1..(Cardinality(s.pendingFrames) + 2) :
                  n \notin s.pendingFrames /\ n # s.animationFrameId
    IN  [s EXCEPT !.animationFrameId = id, !.pendingFrames = @ \cup {id}]

cancelAnimationFrame(s, id) == [s EXCEPT !.pendingFrames = @ \ {id}]

ClampWpm(n) == Max(300, Min(1000, n))
\* mutant: the upper limit forgotten
ClampChunkSize_NoUpper(n) == Max(1, n)
ClampChunkSize(n) == Max(1, Min(5, n))
\* mutant: the lower limit forgotten
ClampIndex_NoLower(index) == Min(index, Len(tokens) - 1)
ClampIndex(index) == Max(0, Min(index, Len(tokens) - 1))

getMsPerWord(s) == 60000 \div s.currentWpm

SmartPauseMs == 75
getSmartPauseDelay(token) == IF token.hasSentenceEnd THEN SmartPauseMs ELSE 0

getChunk(s, startIndex) ==
    LET n == Max(0, Min(s.currentChunkSize, Len(tokens) - startIndex))
    IN  [k \in 1..n |-> startIndex + k - 1]

updateProgress(s) == [s EXCEPT !.out = Append(@, OnProgress(s.currentIndex))]

displayCurrentWord(s) ==
    IF TokenAt(s.currentIndex) = Undefined
    THEN s
    ELSE updateProgress(
           [s EXCEPT !.out = Append(@, OnWord(s.currentIndex,
                                              getChunk(s, s.currentIndex)))])

\* mutant: the pending frame is left in the host's queue
pause_NoCancel(s) ==
    IF ~s.isPlaying
    THEN s
    ELSE LET s1 == [s EXCEPT !.isPlaying = FALSE, !.animationFrameId = 0]
         IN  [s1 EXCEPT !.out = Append(@, OnStateChange(s1.currentIndex, FALSE))]

pause(s) ==
    IF ~s.isPlaying
    THEN s
    ELSE LET s1 == [s EXCEPT !.isPlaying = FALSE]
             s2 == IF s1.animationFrameId # 0
                   THEN [cancelAnimationFrame(s1, s1.animationFrameId)
                            EXCEPT !.animationFrameId = 0]
                   ELSE s1
         IN  [s2 EXCEPT !.out = Append(@, OnStateChange(s2.currentIndex, FALSE))]

\* mutant: play leaves the time of the last frame before the pause in place
play_KeepsLastFrameTime(s) ==
    IF s.isPlaying
    THEN s
    ELSE LET s1 == IF s.currentIndex >= Len(tokens)
                   THEN [s EXCEPT !.currentIndex = 0]
                   ELSE s
             s2 == [s1 EXCEPT !.isPlaying = TRUE, !.accumulatedTime = 0]
             s3 == [s2 EXCEPT !.out = Append(@, OnStateChange(s2.currentIndex, TRUE))]
         IN  requestAnimationFrame(displayCurrentWord(s3))

\* mutant: play does not return early when the engine is playing
play_Unguarded(s) ==
    LET s1 == IF s.currentIndex >= Len(tokens)
              THEN [s EXCEPT !.currentIndex = 0]
              ELSE s
        s2 == [s1 EXCEPT !.isPlaying = TRUE, !.lastFrameTime = 0,
                         !.accumulatedTime = 0]
        s3 == [s2 EXCEPT !.out = Append(@, OnStateChange(s2.currentIndex, TRUE))]
    IN  requestAnimationFrame(displayCurrentWord(s3))

play(s) ==
    IF s.isPlaying
    THEN s
    ELSE LET s1 == IF s.currentIndex >= Len(tokens)
                   THEN [s EXCEPT !.currentIndex = 0]
                   ELSE s
             s2 == [s1 EXCEPT !.isPlaying = TRUE, !.lastFrameTime = 0,
                              !.accumulatedTime = 0]
             s3 == [s2 EXCEPT !.out = Append(@, OnStateChange(s2.currentIndex, TRUE))]
         IN  requestAnimationFrame(displayCurrentWord(s3))

toggle(s) == IF s.isPlaying THEN pause(s) ELSE play(s)

\* mutant: a rate change restarts the interval, as seekTo does
setWpm_ResetsAccumulator(s, newWpm) ==
    LET s1 == [s EXCEPT !.currentWpm = ClampWpm(newWpm), !.accumulatedTime = 0]
    IN  [s1 EXCEPT !.ret = <<s1.currentWpm>>]

setWpm(s, newWpm) ==
    LET s1 == [s EXCEPT !.currentWpm = ClampWpm(newWpm)]
    IN  [s1 EXCEPT !.ret = <<s1.currentWpm>>]

\* mutant: the new chunk is not shown until the next advance
setChunkSize_NoDisplay(s, size) ==
    LET s1 == [s EXCEPT !.currentChunkSize = ClampChunkSize(size)]
    IN  [s1 EXCEPT !.ret = <<s1.currentChunkSize>>]

setChunkSize(s, size) ==
    LET s1 == displayCurrentWord(
                  [s EXCEPT !.currentChunkSize = ClampChunkSize(size)])
    IN  [s1 EXCEPT !.ret = <<s1.currentChunkSize>>]

\* mutant: the time accumulated towards the next advance survives the seek
seekTo_KeepsAccumulator(s, index) ==
    displayCurrentWord([s EXCEPT !.currentIndex = ClampIndex(index)])

seekTo(s, index) ==
    displayCurrentWord([s EXCEPT !.currentIndex = ClampIndex(index),
                                 !.accumulatedTime = 0])

\* mutant: destroy stops the engine without telling the host
destroy_Silent(s) == [pause(s) EXCEPT !.out = s.out]

destroy(s) == pause(s)

\* mutant: the end test off by one
ReachedEnd_OffByOne(index) == index > Len(tokens)

\* the cursor has run off the stream (tick, "Reached the end")
ReachedEnd(index) == index >= Len(tokens)

\* the cursor tick leaves at the end of the stream
EndIndex == Len(tokens) - 1

\* mutant: the interval has to be exceeded, not reached
IntervalElapsed_Strict(accumulated, msPerWord) == accumulated > msPerWord

\* tick's test for advancing
IntervalElapsed(accumulated, msPerWord) == accumulated >= msPerWord

\* mutant: an advance empties the accumulator
Remainder_Reset(accumulated, msPerWord) == 0

\* tick: accumulatedTime -= msPerWord
Remainder(accumulated, msPerWord) == accumulated - msPerWord

tick(s, timestamp) ==
    IF ~s.isPlaying
    THEN s
    ELSE LET last == IF s.lastFrameTime = 0 THEN timestamp ELSE s.lastFrameTime
             deltaTime == timestamp - last
             s1 == [s EXCEPT !.lastFrameTime = timestamp,
                             !.accumulatedTime = @ + deltaTime]
             currentToken == TokenAt(s1.currentIndex)
         IN  IF currentToken = Undefined
             THEN \* getSmartPauseDelay reads token.hasSentenceEnd: TypeError
                  [s1 EXCEPT !.raised = TRUE]
             ELSE LET msPerWord == getMsPerWord(s1) + getSmartPauseDelay(currentToken)
                  IN  IF IntervalElapsed(s1.accumulatedTime, msPerWord)
                      THEN LET s2 == [s1 EXCEPT !.accumulatedTime = Remainder(@, msPerWord),
                                                !.currentIndex = @ + s1.currentChunkSize]
                           IN  IF ReachedEnd(s2.currentIndex)
                               THEN LET s3 == pause([s2 EXCEPT !.currentIndex = EndIndex])
                                    IN  [s3 EXCEPT !.out = Append(@, OnEnd(s3.currentIndex))]
                               ELSE requestAnimationFrame(displayCurrentWord(s2))
                      ELSE requestAnimationFrame(s1)

\* the state createRsvpEngine returns its interface in
createRsvpEngine(wpm, chunkSize) ==
    LET s == [currentIndex |-> 0, currentWpm |-> wpm,
              currentChunkSize |-> ClampChunkSize(chunkSize), isPlaying |-> FALSE,
              lastFrameTime |-> 0, accumulatedTime |-> 0,
              animationFrameId |-> 0, pendingFrames |-> {},
              out |-> <<>>, ret |-> <<>>, raised |-> FALSE]
    IN  IF Len(tokens) > 0 THEN displayCurrentWord(s) ELSE s

(***************************************************************************)
(* The scheduler's specification: the host creates one engine and then,    *)
(* one at a time (the host is single-threaded), calls an operation of its  *)
(* interface, runs a pending animation-frame callback, or lets time pass.  *)
(***************************************************************************)

\* the extractor's variables while the scheduler is being followed
ExtractIdle ==
    /\ archive = <<>>
    /\ chapters = <<>>
    /\ phase = "idle"

\* the application's variables while a part of it is followed on its own
AppIdle ==
    /\ engine = "null"
    /\ bookData = <<>>
    /\ currentFile = <<>>
    /\ currentFileHandle = <<>>
    /\ lastPositionSaveTime = 0
    /\ savedBook = <<>>
    /\ savedPosition = <<>>
    /\ preferences = [wpm |-> 300, chunkSize |-> 1]

\* the variables take the state an operation left
Commit(s, op, arg) ==
    /\ currentIndex' = s.currentIndex
    /\ currentWpm' = s.currentWpm
    /\ currentChunkSize' = s.currentChunkSize
    /\ isPlaying' = s.isPlaying
    /\ lastFrameTime' = s.lastFrameTime
    /\ accumulatedTime' = s.accumulatedTime
    /\ animationFrameId' = s.animationFrameId
    /\ pendingFrames' = s.pendingFrames
    /\ events' = s.out
    /\ returned' = s.ret
    /\ raised' = s.raised
    /\ lastOp' = op
    /\ lastArg' = arg
    /\ UNCHANGED <<tokens, extractVars, args>>

Init ==
    /\ tokens \in TokenStreams
    /\ \E wpm \in RequestedWpm, chunkSize \in RequestedChunkSize :
         LET s == createRsvpEngine(wpm, chunkSize)
         IN  /\ currentIndex = s.currentIndex
             /\ currentWpm = s.currentWpm
             /\ currentChunkSize = s.currentChunkSize
             /\ isPlaying = s.isPlaying
             /\ lastFrameTime = s.lastFrameTime
             /\ accumulatedTime = s.accumulatedTime
             /\ animationFrameId = s.animationFrameId
             /\ pendingFrames = s.pendingFrames
             /\ events = s.out
             /\ returned = s.ret
             /\ raised = s.raised
             /\ lastOp = "createRsvpEngine"
             /\ lastArg = wpm
    /\ now = StartTime
    /\ ExtractIdle
    /\ args = <<>>
    /\ AppIdle

CallPlay == Commit(play(Cur), "play", 0) /\ UNCHANGED <<now, appVars>>

CallPause == Commit(pause(Cur), "pause", 0) /\ UNCHANGED <<now, appVars>>

CallToggle == Commit(toggle(Cur), "toggle", 0) /\ UNCHANGED <<now, appVars>>

CallSetWpm ==
    \E n \in RequestedWpm : Commit(setWpm(Cur, n), "setWpm", n) /\ UNCHANGED <<now, appVars>>

CallSetChunkSize ==
    \E n \in RequestedChunkSize :
        Commit(setChunkSize(Cur, n), "setChunkSize", n) /\ UNCHANGED <<now, appVars>>

CallSeekTo ==
    \E i \in SeekTargets : Commit(seekTo(Cur, i), "seekTo", i) /\ UNCHANGED <<now, appVars>>

CallDestroy == Commit(destroy(Cur), "destroy", 0) /\ UNCHANGED <<now, appVars>>

\* the host's next frame: d ms later it runs a pending callback, which is tick
Frame ==
    \E id \in pendingFrames, d \in FrameSteps :
        /\ now + d <= StartTime + Horizon
        /\ now' = now + d
        /\ Commit(tick([Cur EXCEPT !.pendingFrames = @ \ {id}], now + d),
                  "tick", now + d)
        /\ UNCHANGED appVars

\* time passes with no callback to run
Wait ==
    \E d \in FrameSteps :
        /\ pendingFrames = {}
        /\ now + d <= StartTime + Horizon
        /\ now' = now + d
        /\ Commit(Cur, "wait", 0)
        /\ UNCHANGED appVars

Next ==
    \/ CallPlay
    \/ CallPause
    \/ CallToggle
    \/ CallSetWpm
    \/ CallSetChunkSize
    \/ CallSeekTo
    \/ CallDestroy
    \/ Frame
    \/ Wait

Spec == Init /\ [][Next]_vars

(***************************************************************************)
(* EPUB parser: text helpers.  Texts are strings; a string is read through *)
(* Len, SubSeq and \o.                                                     *)
(***************************************************************************)
CharAt(str, i) == SubSeq(str, i, i)

\* the characters of the model's texts that the regular expression \s matches
IsSpace(c) == c \in {" ", "\n", "\t"}

\* String.prototype.trim
Trim(str) ==
    LET solid == {i \in 1..Len(str) : ~IsSpace(CharAt(str, i))}
    IN  IF solid = {}
        THEN ""
        ELSE SubSeq(str, CHOOSE i \in solid : \A j \in solid : i <= j,
                         CHOOSE i \in solid : \A j \in solid : i >= j)

\* str.replace(/\s+/g, ' '): every maximal run of whitespace becomes one space
RECURSIVE CollapseFrom(_, _)
CollapseFrom(str, i) ==
    IF i > Len(str)
    THEN ""
    ELSE IF IsSpace(CharAt(str, i))
         THEN IF i > 1 /\ IsSpace(CharAt(str, i - 1))
              THEN CollapseFrom(str, i + 1)
              ELSE " " \o CollapseFrom(str, i + 1)
         ELSE CharAt(str, i) \o CollapseFrom(str, i + 1)

\* text.replace(/\s+/g, ' ').trim()
CleanWhitespace(str) == Trim(CollapseFrom(str, 1))

\* mutant: the separators are counted, not the words between them
countWords_Separators(text) ==
    Cardinality({i \in 1..Len(text) :
                    /\ IsSpace(CharAt(text, i))
                    /\ (i = 1 \/ ~IsSpace(CharAt(text, i - 1)))})

\* text.split(/\s+/).filter((word) => word.length > 0).length
countWords(text) ==
    Cardinality({i \in 1..Len(text) :
                    /\ ~IsSpace(CharAt(text, i))
                    /\ (i = 1 \/ IsSpace(CharAt(text, i - 1)))})

\* String.prototype.toLowerCase on the letters of the model's texts
UpperCase == "ABCDEFGHIJKLMNOPQRSTUVWXYZ"
LowerCase == "abcdefghijklmnopqrstuvwxyz"
LowerChar(c) ==
    IF \E i \in 1..Len(UpperCase) : CharAt(UpperCase, i) = c
    THEN CharAt(LowerCase, CHOOSE i \in 1..Len(UpperCase) : CharAt(UpperCase, i) = c)
    ELSE c
RECURSIVE LowerFrom(_, _)
LowerFrom(str, i) ==
    IF i > Len(str) THEN "" ELSE LowerChar(CharAt(str, i)) \o LowerFrom(str, i + 1)
toLowerCase(str) == LowerFrom(str, 1)

startsWith(str, prefix) ==
    Len(str) >= Len(prefix) /\ SubSeq(str, 1, Len(prefix)) = prefix
endsWith(str, suffix) ==
    Len(str) >= Len(suffix) /\ SubSeq(str, Len(str) - Len(suffix) + 1, Len(str)) = suffix
includes(str, part) ==
    \E i \in 1..(Len(str) - Len(part) + 1) : SubSeq(str, i, i + Len(part) - 1) = part

\* decimal digits of a natural number, as template literals print it
RECURSIVE Decimal(_)
Decimal(n) ==
    IF n < 10
    THEN CharAt("0123456789", n + 1)
    ELSE Decimal(n \div 10) \o CharAt("0123456789", (n % 10) + 1)

(***************************************************************************)
(* EPUB parser: documents.                                                 *)
(*                                                                         *)
(* A content document is the sequence of its text nodes in document order, *)
(* each with the tag and the id ("" for none) of the element that holds    *)
(* it ("text" for a text node directly in the body), and the text of its   *)
(* title element.  An element with an id contains or precedes exactly the  *)
(* text nodes from its own on, which is all the range extraction asks of   *)
(* it.  The archive maps a path to a document; an entry that cannot be     *)
(* read is Absent.                                                         *)
(***************************************************************************)
Absent == [readable |-> FALSE, title |-> "", nodes |-> <<>>]

\* zip.file(path)?.async('text')
ReadText(zip, path) == IF path \in DOMAIN zip THEN zip[path] ELSE Absent

\* doc.querySelectorAll('script, style, nav, aside').forEach((el) => el.remove())
RemovedTags == {"script", "style", "nav", "aside"}
IsKept(node) == node.tag \notin RemovedTags
RemoveNonContent(nodes) == SelectSeq(nodes, IsKept)

\* body.textContent
RECURSIVE textContent(_)
textContent(nodes) ==
    IF nodes = <<>> THEN "" ELSE Head(nodes).text \o textContent(Tail(nodes))

\* doc.getElementById(id): the position of the first node with the id, 0 for null
getElementById(nodes, id) ==
    LET hits == {i \in 1..Len(nodes) : nodes[i].id = id}
    IN  IF hits = {} THEN 0 ELSE CHOOSE i \in hits : \A j \in hits : i <= j

\* doc.querySelector(tag)?.textContent?.trim(), "" for undefined
querySelectorText(nodes, tag) ==
    LET hits == {i \in 1..Len(nodes) : nodes[i].tag = tag}
    IN  IF hits = {}
        THEN ""
        ELSE Trim(nodes[CHOOSE i \in hits : \A j \in hits : i <= j].text)

\* the tree walk of extractTextFromFragment over text nodes i.. of the body
RECURSIVE WalkTextNodes(_, _, _, _, _, _)
WalkTextNodes(nodes, startEl, endEl, i, collecting, text) ==
    IF i > Len(nodes)
    THEN text
    ELSE LET started == collecting \/ (startEl # 0 /\ i >= startEl)
         IN  IF endEl # 0 /\ started /\ i >= endEl
             THEN text
             ELSE WalkTextNodes(nodes, startEl, endEl, i + 1, started,
                                IF started THEN text \o nodes[i].text \o " " ELSE text)

extractTextFromFragment(html, startFragment, endFragment) ==
    LET body == RemoveNonContent(html.nodes)
    IN  IF startFragment = "" /\ endFragment = ""
        THEN CleanWhitespace(textContent(body))
        ELSE LET startEl == IF startFragment # ""
                            THEN getElementById(body, startFragment) ELSE 0
                 endEl == IF endFragment # ""
                          THEN getElementById(body, endFragment) ELSE 0
             IN  CleanWhitespace(
                     WalkTextNodes(body, startEl, endEl, 1, startFragment = "", ""))

invalidTitles ==
    <<"unknown", "nieznany", "untitled", "chapter", "section", "part", "index",
      "content", "document">>

\* mutant: a title that merely starts with a listed word is rejected
isValidTitle_AnyPrefix(title) ==
    /\ Len(title) # 0
    /\ LET lower == toLowerCase(title)
       IN  ~\E k \in 1..Len(invalidTitles) : startsWith(lower, invalidTitles[k])

isValidTitle(title) ==
    /\ Len(title) # 0
    /\ LET lower == toLowerCase(title)
       IN  ~\E k \in 1..Len(invalidTitles) :
               \/ lower = invalidTitles[k]
               \/ startsWith(lower, invalidTitles[k] \o " ")

\* cleanText.split(/[.!?]/, 1)[0].trim()
FirstLine(cleanText) ==
    LET stops == {i \in 1..Len(cleanText) : CharAt(cleanText, i) \in {".", "!", "?"}}
    IN  IF stops = {}
        THEN Trim(cleanText)
        ELSE Trim(SubSeq(cleanText, 1, (CHOOSE i \in stops : \A j \in stops : i <= j) - 1))

\* the longest first line taken for a title
MaxTitleLength == 50

\* {text, title}; title "" stands for null
extractTextFromHtml(html) ==
    LET h1 == querySelectorText(html.nodes, "h1")
        h2 == querySelectorText(html.nodes, "h2")
        h3 == querySelectorText(html.nodes, "h3")
        heading == IF h1 # "" THEN h1 ELSE IF h2 # "" THEN h2 ELSE h3
        titleTag == Trim(html.title)
        cleanText == CleanWhitespace(textContent(RemoveNonContent(html.nodes)))
        firstLine == FirstLine(cleanText)
        title == IF heading # "" /\ isValidTitle(heading) THEN heading
                 ELSE IF titleTag # "" /\ isValidTitle(titleTag) THEN titleTag
                 ELSE IF /\ cleanText # ""
                         /\ Len(firstLine) > 0
                         /\ Len(firstLine) <= MaxTitleLength
                         /\ ~includes(firstLine, " ")
                      THEN firstLine
                 ELSE ""
    IN  [text |-> cleanText, title |-> title]

(***************************************************************************)
(* EPUB parser: chapter extraction.                                        *)
(***************************************************************************)

\* extractChapters: "Only process HTML/XHTML content"
IsMarkup(item) ==
    \/ (item.mediaType # "" /\ includes(item.mediaType, "html"))
    \/ endsWith(item.href, ".html")
    \/ endsWith(item.href, ".xhtml")

\* mutant: the auto title numbers the chapter by its position in the spine
AutoTitle_SpinePosition(acc, i) == "Part " \o Decimal(i)

\* `Part ${chapters.length + 1}`, acc being the chapters pushed so far
AutoTitle(acc, i) == "Part " \o Decimal(Len(acc) + 1)

\* the loop of extractChapters from spine position i on, chapters pushed so far
RECURSIVE SpineLoop(_, _, _, _, _, _)
SpineLoop(zip, spine, manifest, opfDir, i, acc) ==
    IF i > Len(spine)
    THEN acc
    ELSE LET id == spine[i]
             item == manifest[id]
             content == ReadText(zip, opfDir \o item.href)
             extracted == extractTextFromHtml(content)
             keep == /\ id \in DOMAIN manifest
                     /\ IsMarkup(item)
                     /\ content.readable
                     /\ Trim(extracted.text) # ""
         IN  SpineLoop(zip, spine, manifest, opfDir, i + 1,
                 IF keep
                 THEN Append(acc,
                        [id |-> id,
                         title |-> IF extracted.title # "" THEN extracted.title
                                   ELSE AutoTitle(acc, i),
                         text |-> extracted.text,
                         wordCount |-> countWords(extracted.text)])
                 ELSE acc)

extractChapters(zip, spine, manifest, opfDir) ==
    SpineLoop(zip, spine, manifest, opfDir, 1, <<>>)

\* the text extractChaptersFromNav takes for navigation point i (1-based here)
NavPointText(content, navPoints, i) ==
    LET navPoint == navPoints[i]
        hasNext == i < Len(navPoints)
        nextNavPoint == navPoints[IF hasNext THEN i + 1 ELSE i]
    IN  IF navPoint.fragment # ""
        THEN extractTextFromFragment(content, navPoint.fragment,
                 IF hasNext /\ nextNavPoint.file = navPoint.file
                 THEN nextNavPoint.fragment ELSE "")
        ELSE IF hasNext /\ nextNavPoint.file = navPoint.file /\ nextNavPoint.fragment # ""
             THEN extractTextFromFragment(content, "", nextNavPoint.fragment)
             ELSE extractTextFromHtml(content).text

\* the second loop of extractChaptersFromNav from point i on
RECURSIVE NavLoop(_, _, _, _, _)
NavLoop(zip, opfDir, navPoints, i, acc) ==
    IF i > Len(navPoints)
    THEN acc
    ELSE LET content == ReadText(zip, opfDir \o navPoints[i].file)
             text == NavPointText(content, navPoints, i)
         IN  NavLoop(zip, opfDir, navPoints, i + 1,
                 IF content.readable /\ Trim(text) # ""
                 THEN Append(acc,
                        [id |-> "nav-" \o Decimal(i - 1),
                         title |-> navPoints[i].label,
                         text |-> Trim(text),
                         wordCount |-> countWords(text)])
                 ELSE acc)

\* the chapters extractChaptersFromNav has collected before it validates them
NavChapters(zip, opfDir, navPoints) == NavLoop(zip, opfDir, navPoints, 1, <<>>)

\* fewer words than this make a chapter trivial
MinChapterWords == 10

\* "If navigation-based extraction yields nothing useful"
NothingUseful(chs) ==
    Len(chs) = 0 \/ \A k \in 1..Len(chs) : chs[k].wordCount < MinChapterWords

extractChaptersFromNav(zip, opfDir, navPoints) ==
    LET chs == NavChapters(zip, opfDir, navPoints)
    IN  IF NothingUseful(chs) THEN <<>> ELSE chs

\* mutant: a single navigation point counts as meaningful navigation
HasMeaningfulNavigation_One(navPoints) == Len(navPoints) > 0

\* "If we have meaningful navigation (more than 1 entry), use it"
HasMeaningfulNavigation(navPoints) == Len(navPoints) > 1

extractChaptersWithNav(zip, spine, manifest, opfDir, navPoints) ==
    IF HasMeaningfulNavigation(navPoints)
    THEN extractChaptersFromNav(zip, opfDir, navPoints)
    ELSE extractChapters(zip, spine, manifest, opfDir)

\* parseEpub: chapters.reduce((sum, ch) => sum + ch.wordCount, 0)
RECURSIVE totalWords(_)
totalWords(chs) ==
    IF chs = <<>> THEN 0 ELSE Head(chs).wordCount + totalWords(Tail(chs))

(***************************************************************************)
(* Tokenizer: tokenizeChapters and the functions it is built from.         *)
(***************************************************************************)

\* text.split(/\s+/).filter((word) => word.length > 0), from character i on,
\* word being the characters of the current piece read so far
RECURSIVE SplitFrom(_, _, _)
SplitFrom(text, i, word) ==
    IF i > Len(text)
    THEN IF word = "" THEN <<>> ELSE <<word>>
    ELSE IF IsSpace(CharAt(text, i))
         THEN (IF word = "" THEN <<>> ELSE <<word>>) \o SplitFrom(text, i + 1, "")
         ELSE SplitFrom(text, i + 1, word \o CharAt(text, i))

SplitWords(text) == SplitFrom(text, 1, "")

\* the character class of cleanWord's two regular expressions, without its
\* low-9 quotation marks (U+201E, U+201A), which no text of the model holds
QuoteChars == {"\"", "'", "«", "»"}

\* word.replace(/^[...]+/, '')
StripLeadingQuotes(word) ==
    LET solid == {i \in 1..Len(word) : CharAt(word, i) \notin QuoteChars}
    IN  IF solid = {}
        THEN ""
        ELSE SubSeq(word, CHOOSE i \in solid : \A j \in solid : i <= j, Len(word))

\* word.replace(/[...]+$/, '')
StripTrailingQuotes(word) ==
    LET solid == {i \in 1..Len(word) : CharAt(word, i) \notin QuoteChars}
    IN  IF solid = {}
        THEN ""
        ELSE SubSeq(word, 1, CHOOSE i \in solid : \A j \in solid : i >= j)

cleanWord(word) == Trim(StripTrailingQuotes(StripLeadingQuotes(word)))

\* the two character classes of hasSentenceEndingPunctuation's expression
SentenceEndChars == {".", "!", "?"}
AfterEndChars == {"\"", "'", "»"}

\* mutant: the expression without its anchor, punctuation anywhere counts
hasSentenceEndingPunctuation_Anywhere(word) ==
    \E i \in 1..Len(word) : CharAt(word, i) \in SentenceEndChars

\* /[.!?]["'»"']?$/.test(word)
hasSentenceEndingPunctuation(word) ==
    LET n == Len(word)
    IN  \/ n >= 1 /\ CharAt(word, n) \in SentenceEndChars
        \/ /\ n >= 2
           /\ CharAt(word, n) \in AfterEndChars
           /\ CharAt(word, n - 1) \in SentenceEndChars

\* words.map((word) => cleanWord(word))
CleanAll(words) == [k \in 1..Len(words) |-> cleanWord(words[k])]

\* mutant: words that are empty once cleaned are dropped
tokenizeText_DropsEmpty(text) ==
    LET NonEmpty(word) == Len(word) > 0
    IN  SelectSeq(CleanAll(SplitWords(text)), NonEmpty)

tokenizeText(text) == CleanAll(SplitWords(text))

\* mutant: the end flag compares the word's index with the number of words
ChapterTokens_EndAtLength(chapter, chapterIndex) ==
    LET words == tokenizeText(chapter.text)
    IN  [k \in 1..Len(words) |->
            [word |-> words[k],
             chapterIndex |-> chapterIndex,
             chapterTitle |-> chapter.title,
             wordIndexInChapter |-> k - 1,
             isChapterStart |-> (k - 1 = 0),
             isChapterEnd |-> (k - 1 = Len(words)),
             hasSentenceEnd |-> hasSentenceEndingPunctuation(words[k])]]

\* the tokens tokenizeChapters pushes for one chapter
ChapterTokens(chapter, chapterIndex) ==
    LET words == tokenizeText(chapter.text)
    IN  [k \in 1..Len(words) |->
            [word |-> words[k],
             chapterIndex |-> chapterIndex,
             chapterTitle |-> chapter.title,
             wordIndexInChapter |-> k - 1,
             isChapterStart |-> (k - 1 = 0),
             isChapterEnd |-> (k - 1 = Len(words) - 1),
             hasSentenceEnd |-> hasSentenceEndingPunctuation(words[k])]]

\* chapters.forEach from chapter i (1-based here) on
RECURSIVE TokensFrom(_, _)
TokensFrom(chs, i) ==
    IF i > Len(chs)
    THEN <<>>
    ELSE ChapterTokens(chs[i], i - 1) \o TokensFrom(chs, i + 1)

tokenizeChapters(chs) == TokensFrom(chs, 1)

(***************************************************************************)
(* Tokenizer: the conversions between a global word index and a position   *)
(* (chapterIndex, wordIndexInChapter).                                     *)
(***************************************************************************)

\* getGlobalIndex: its loop from chapter i on, index being the sum so far
RECURSIVE GlobalIndexLoop(_, _, _, _)
GlobalIndexLoop(chs, chapterIndex, i, index) ==
    IF i < chapterIndex /\ i < Len(chs)
    THEN GlobalIndexLoop(chs, chapterIndex, i + 1, index + chs[i + 1].wordCount)
    ELSE index

getGlobalIndex(chs, chapterIndex, wordIndexInChapter) ==
    GlobalIndexLoop(chs, chapterIndex, 0, 0) + wordIndexInChapter

\* mutant: a chapter also takes the index one past its last word
InChapter_Inclusive(remaining, wordCount) == remaining <= wordCount

\* getChapterPosition's test: remaining < chapters[i].wordCount
InChapter(remaining, wordCount) == remaining < wordCount

\* "Past end of book, return last position":
\* chapters[lastChapter]?.wordCount - 1 || 0, where an undefined chapter
\* gives NaN and so 0
PastEndPosition(chs) ==
    LET lastChapter == Len(chs) - 1
    IN  [chapterIndex |-> lastChapter,
         wordIndexInChapter |->
             IF lastChapter >= 0 /\ chs[lastChapter + 1].wordCount - 1 # 0
             THEN chs[lastChapter + 1].wordCount - 1
             ELSE 0]

\* getChapterPosition: its loop from chapter i on
RECURSIVE ChapterPositionLoop(_, _, _)
ChapterPositionLoop(chs, i, remaining) ==
    IF i < Len(chs)
    THEN IF InChapter(remaining, chs[i + 1].wordCount)
         THEN [chapterIndex |-> i, wordIndexInChapter |-> remaining]
         ELSE ChapterPositionLoop(chs, i + 1, remaining - chs[i + 1].wordCount)
    ELSE PastEndPosition(chs)

getChapterPosition(chs, globalIndex) == ChapterPositionLoop(chs, 0, globalIndex)

(***************************************************************************)
(* Tokenizer: sentence navigation.  A function gives [value, raised]:      *)
(* the index it returns, or raised when it reads hasSentenceEnd of a       *)
(* token outside the array (a TypeError).                                  *)
(***************************************************************************)
Returns(i) == [value |-> i, raised |-> FALSE]
Throws == [value |-> 0, raised |-> TRUE]

\* tokens[i] is undefined
OutsideArray(toks, i) == i < 0 \/ i >= Len(toks)

\* while (i > 0 && !tokens[i].hasSentenceEnd) i--
RECURSIVE BackToSentenceEnd(_, _)
BackToSentenceEnd(toks, i) ==
    IF i > 0
    THEN IF OutsideArray(toks, i)
         THEN Throws
         ELSE IF ~toks[i + 1].hasSentenceEnd
              THEN BackToSentenceEnd(toks, i - 1)
              ELSE Returns(i)
    ELSE Returns(i)

findPreviousSentenceStart(toks, index) ==
    IF index <= 0
    THEN Returns(0)
    ELSE LET first == BackToSentenceEnd(toks, index - 1)
             second == IF ~first.raised /\ first.value > 0
                       THEN BackToSentenceEnd(toks, first.value - 1)
                       ELSE first
             i == second.value
         IN  IF second.raised
             THEN Throws
             ELSE IF i > 0 /\ toks[i + 1].hasSentenceEnd
                  THEN Returns(Max(0, i + 1))
                  ELSE Returns(Max(0, i))

\* while (i < maxIndex && !tokens[i].hasSentenceEnd) i++
RECURSIVE ForwardToSentenceEnd(_, _, _)
ForwardToSentenceEnd(toks, i, maxIndex) ==
    IF i < maxIndex
    THEN IF OutsideArray(toks, i)
         THEN Throws
         ELSE IF ~toks[i + 1].hasSentenceEnd
              THEN ForwardToSentenceEnd(toks, i + 1, maxIndex)
              ELSE Returns(i)
    ELSE Returns(i)

\* mutant: the step from the sentence end to the next token is left out
findNextSentenceStart_NoStep(toks, index) ==
    LET maxIndex == Len(toks) - 1
    IN  IF index >= maxIndex
        THEN Returns(maxIndex)
        ELSE LET found == ForwardToSentenceEnd(toks, index, maxIndex)
             IN  IF found.raised THEN Throws ELSE Returns(Min(found.value, maxIndex))

findNextSentenceStart(toks, index) ==
    LET maxIndex == Len(toks) - 1
    IN  IF index >= maxIndex
        THEN Returns(maxIndex)
        ELSE LET found == ForwardToSentenceEnd(toks, index, maxIndex)
                 i == IF found.value < maxIndex THEN found.value + 1 ELSE found.value
             IN  IF found.raised THEN Throws ELSE Returns(Min(i, maxIndex))

(***************************************************************************)
(* Recognition point (ORP): calculateOrpIndex and splitWordAtOrp.          *)
(***************************************************************************)

\* mutant: the second step of the table one length late
calculateOrpIndex_LateStep(word) ==
    LET len == Len(word)
    IN  IF len <= 1 THEN 0
        ELSE IF len <= 6 THEN 1
        ELSE IF len <= 9 THEN 2
        ELSE IF len <= 13 THEN 3
        ELSE 4

calculateOrpIndex(word) ==
    LET len == Len(word)
    IN  IF len <= 1 THEN 0
        ELSE IF len <= 5 THEN 1
        ELSE IF len <= 9 THEN 2
        ELSE IF len <= 13 THEN 3
        ELSE 4

\* String.prototype.substring(indexStart, indexEnd), for indexStart <= indexEnd
substring(str, indexStart, indexEnd) ==
    SubSeq(str, Max(0, Min(indexStart, Len(str))) + 1, Max(0, Min(indexEnd, Len(str))))

\* word[i] || ''
CharOrEmpty(word, i) == IF i >= 0 /\ i < Len(word) THEN CharAt(word, i + 1) ELSE ""

\* mutant: the part after the point starts at the point
splitWordAtOrp_AfterFromPoint(word) ==
    IF Len(word) = 0
    THEN [before |-> "", orp |-> "", after |-> ""]
    ELSE LET orpIndex == calculateOrpIndex(word)
         IN  [before |-> substring(word, 0, orpIndex),
              orp |-> CharOrEmpty(word, orpIndex),
              after |-> substring(word, orpIndex, Len(word))]

splitWordAtOrp(word) ==
    IF Len(word) = 0
    THEN [before |-> "", orp |-> "", after |-> ""]
    ELSE LET orpIndex == calculateOrpIndex(word)
         IN  [before |-> substring(word, 0, orpIndex),
              orp |-> CharOrEmpty(word, orpIndex),
              after |-> substring(word, orpIndex + 1, Len(word))]

(***************************************************************************)
(* Properties of the playback scheduler.                                   *)
(***************************************************************************)
CountEvents(evs, cb) == Cardinality({i \in 1..Len(evs) : evs[i].cb = cb})
HasEvent(evs, cb) == CountEvents(evs, cb) > 0

\* the interval the specification requires for the token under the cursor:
\* 60000 / wordsPerMinute, plus 75 ms after a sentence end
RequiredInterval ==
    (60000 \div currentWpm)
      + (IF currentIndex \in 0..(Len(tokens) - 1) /\ tokens[currentIndex + 1].hasSentenceEnd
         THEN 75 ELSE 0)

\* a step that runs tick on a playing engine, with the elapsed time it adds
\* (none on the first tick after play) reaching the required interval
DueTickStep ==
    /\ lastOp' = "tick"
    /\ isPlaying
    /\ Len(tokens) > 0
    /\ accumulatedTime + (IF lastFrameTime = 0 THEN 0 ELSE now' - lastFrameTime)
          >= RequiredInterval

\* the state a tick leaves when it has reached the end of the stream
AtEndOfStream == lastOp = "tick" /\ HasEvent(events, "onEnd")

\* C3: a tick that advances the cursor by chunkSize to or past the length of
\* the stream leaves the cursor on the last index, the engine paused with no
\* tick pending, and has fired the end signal exactly once; the end signal is
\* fired by nothing else, and a tick never moves the cursor backwards.
C3_EndOfStream ==
    [][/\ (DueTickStep /\ currentIndex + currentChunkSize >= Len(tokens))
            => /\ currentIndex' = Len(tokens) - 1
               /\ ~isPlaying'
               /\ pendingFrames' = {}
               /\ CountEvents(events', "onEnd") = 1
               /\ events'[Len(events')].cb = "onEnd"
       /\ HasEvent(events', "onEnd")
            => /\ DueTickStep
               /\ currentIndex + currentChunkSize >= Len(tokens)
       /\ lastOp' = "tick" => currentIndex' >= currentIndex
      ]_vars

\* C3 witness: a stream of three tokens played in chunks of two has ended
C3_Witness ==
    /\ AtEndOfStream
    /\ Len(tokens) = 3
    /\ currentChunkSize = 2
    /\ currentIndex = 2
    /\ ~isPlaying

\* C4: play() in the state end-of-stream leaves (cursor on the last index)
\* restarts from index 0.
C4_PlayAtEndRestarts ==
    [][(AtEndOfStream /\ lastOp' \in {"play", "toggle"}) => currentIndex' = 0]_vars

\* C5: on an empty token stream no operation and no tick throws, and the
\* engine is never left playing.
C5_EmptyStreamNeverRaises == (Len(tokens) = 0) => (~raised /\ ~isPlaying)

\* C6: on a non-empty stream the cursor, as the variable and as every callback
\* observes it, is within [0, tokenCount - 1].
C6_CursorInRange ==
    (Len(tokens) > 0) =>
        /\ currentIndex \in 0..(Len(tokens) - 1)
        /\ \A i \in 1..Len(events) : events[i].index \in 0..(Len(tokens) - 1)

\* C6 witness: seekTo beyond the last index has left the cursor on it
C6_Witness ==
    /\ lastOp = "seekTo"
    /\ Len(tokens) > 1
    /\ lastArg > Len(tokens) - 1
    /\ currentIndex = Len(tokens) - 1

\* C7: wordsPerMinute is within [300, 1000] in every reachable state,
\* the state right after creation included.
C7_RateInRange == currentWpm \in 300..1000

\* C8: chunkSize is within [1, 5] in every reachable state, whatever integer
\* was requested at creation or given to setChunkSize; setChunkSize(9) gives 5.
C8_ChunkSizeInRange ==
    /\ currentChunkSize \in 1..5
    /\ (lastOp = "setChunkSize" /\ lastArg = 9) => currentChunkSize = 5
    /\ (lastOp = "setChunkSize" /\ lastArg = 0) => currentChunkSize = 1

\* C8 witness: setChunkSize(9) has acted
C8_Witness ==
    /\ lastOp = "setChunkSize"
    /\ lastArg = 9
    /\ currentChunkSize = 5
    /\ returned = <<5>>

\* n clamped into [lo, hi], as the specification words it
Clamped(n, lo, hi) == IF n < lo THEN lo ELSE IF n > hi THEN hi ELSE n

\* C9: setWpm(n) and setChunkSize(n) store and return n clamped to [300, 1000]
\* and [1, 5], and change neither the cursor, the accumulator, the play/pause
\* state nor the pending tick; setChunkSize re-displays the chunk under the
\* cursor at its new size (a stream with no token has none), setWpm invokes
\* no callback.
C9_SetRateAndChunkFrame ==
    [][/\ lastOp' = "setWpm"
            => /\ currentWpm' = Clamped(lastArg', 300, 1000)
               /\ returned' = <<currentWpm'>>
               /\ events' = <<>>
               /\ UNCHANGED <<currentIndex, accumulatedTime, isPlaying,
                              lastFrameTime, pendingFrames, currentChunkSize>>
       /\ lastOp' = "setChunkSize"
            => /\ currentChunkSize' = Clamped(lastArg', 1, 5)
               /\ returned' = <<currentChunkSize'>>
               /\ UNCHANGED <<currentIndex, accumulatedTime, isPlaying,
                              lastFrameTime, pendingFrames, currentWpm>>
               /\ IF Len(tokens) = 0
                  THEN events' = <<>>
                  ELSE /\ Len(events') = 2
                       /\ events'[1].cb = "onWord"
                       /\ events'[1].index = currentIndex
                       /\ Len(events'[1].chunk)
                            = Clamped(Len(tokens) - currentIndex, 1, currentChunkSize')
                       /\ events'[2].cb = "onProgress"
      ]_vars

\* C9 witness: setWpm(50) has stored and returned 300 while playing
C9_Witness ==
    /\ lastOp = "setWpm"
    /\ lastArg = 50
    /\ currentWpm = 300
    /\ returned = <<300>>
    /\ isPlaying
    /\ accumulatedTime > 0

\* C10: pause() while playing cancels the pending tick and signals the state
\* change once; pause() while paused changes nothing and signals nothing; and
\* while paused the cursor stays and no display callback fires until play()
\* (also through toggle()), seekTo() or setChunkSize() is called.
C10_Pause ==
    [][/\ (lastOp' = "pause" /\ isPlaying)
            => /\ ~isPlaying'
               /\ pendingFrames' = {}
               /\ events' = <<OnStateChange(currentIndex, FALSE)>>
               /\ UNCHANGED <<currentIndex, currentWpm, currentChunkSize>>
       /\ (lastOp' = "pause" /\ ~isPlaying)
            => /\ events' = <<>>
               /\ UNCHANGED <<currentIndex, currentWpm, currentChunkSize, isPlaying,
                              lastFrameTime, accumulatedTime, animationFrameId,
                              pendingFrames>>
       /\ (~isPlaying /\ lastOp' \notin {"play", "toggle", "seekTo", "setChunkSize"})
            => /\ currentIndex' = currentIndex
               /\ ~HasEvent(events', "onWord")
      ]_vars

\* C10 witness: pause() has stopped a playing engine after its cursor advanced
C10_Witness ==
    /\ lastOp = "pause"
    /\ events = <<OnStateChange(currentIndex, FALSE)>>
    /\ ~isPlaying
    /\ pendingFrames = {}
    /\ currentIndex > 0
    /\ lastFrameTime > 0

\* C11: seekTo(index) leaves the cursor on index clamped into [0, length - 1]
\* and the time accumulator at zero, has invoked the display callback (and
\* then the progress callback) for the new cursor by the time it returns, and
\* changes neither the play/pause state nor the pending tick; on a stream
\* with no token there is nothing to display and the cursor stays 0.
C11_SeekToFrame ==
    [][lastOp' = "seekTo"
         => /\ accumulatedTime' = 0
            /\ UNCHANGED <<isPlaying, pendingFrames, animationFrameId,
                           lastFrameTime, currentWpm, currentChunkSize>>
            /\ returned' = <<>>
            /\ ~raised'
            /\ IF Len(tokens) = 0
               THEN currentIndex' = 0 /\ events' = <<>>
               ELSE /\ currentIndex' = Clamped(lastArg', 0, Len(tokens) - 1)
                    /\ Len(events') = 2
                    /\ events'[1].cb = "onWord"
                    /\ events'[1].index = currentIndex'
                    /\ events'[1].chunk[1] = currentIndex'
                    /\ events'[2] = OnProgress(currentIndex')
      ]_vars

\* C11 witness: seekTo past the end while playing, with a tick pending, has
\* put the cursor on the last index and emptied the accumulator
C11_Witness ==
    /\ lastOp = "seekTo"
    /\ lastArg = Len(tokens)
    /\ Len(tokens) = 3
    /\ currentIndex = 2
    /\ isPlaying
    /\ pendingFrames # {}
    /\ lastFrameTime > StartTime + 100
    /\ accumulatedTime = 0
    /\ events = <<OnWord(2, <<2>>), OnProgress(2)>>

\* a step that runs tick on a playing engine with a token under the cursor
TickStep == lastOp' = "tick" /\ isPlaying /\ Len(tokens) > 0

\* the time the accumulator holds once the tick has added the frame's delta
\* (none on the first tick after play)
AccumulatedAtTick ==
    accumulatedTime + (IF lastFrameTime = 0 THEN 0 ELSE now' - lastFrameTime)

\* the cursor has left its token: moved on, or the stream has ended
Advanced == currentIndex' > currentIndex \/ HasEvent(events', "onEnd")

\* C12: a tick advances the cursor from its token exactly when the accumulated
\* time has reached 60000 / wordsPerMinute ms, plus 75 ms when the token has
\* hasSentenceEnd set; at 300 words per minute that is 200 ms, or 275 ms.
C12_TickInterval ==
    [][TickStep
         => /\ Advanced <=> AccumulatedAtTick >= RequiredInterval
            /\ ~Advanced => (currentIndex' = currentIndex /\ events' = <<>>)
            /\ Advanced => accumulatedTime' = AccumulatedAtTick - RequiredInterval
            /\ currentWpm = 300
                 => RequiredInterval
                      = (IF tokens[currentIndex + 1].hasSentenceEnd THEN 275 ELSE 200)
      ]_vars

\* C12 witness: at 300 words per minute the cursor has left a sentence-ending
\* token on the first tick with at least 275 ms accumulated (300, 25 left)
C12_Witness ==
    /\ lastOp = "tick"
    /\ currentWpm = 300
    /\ currentChunkSize = 1
    /\ currentIndex = 1
    /\ tokens[1].hasSentenceEnd
    /\ accumulatedTime = 25
    /\ isPlaying
    /\ events = <<OnWord(1, <<1>>), OnProgress(1)>>

\* C24: every step that moves the cursor, the tick that reaches the end of
\* the stream included, invokes the progress callback with the new cursor
\* (which it reports as a fraction of the stream's length).
C24_ProgressOnEveryAdvance ==
    [][currentIndex' # currentIndex
         => \E k \in 1..Len(events') : events'[k] = OnProgress(currentIndex')]_vars

\* the time a frame adds to the accumulator (none on the first tick after play)
FrameDelta == IF lastFrameTime = 0 THEN 0 ELSE now' - lastFrameTime

\* C28: after a tick that does not end the stream the accumulated time is
\* below the interval required for the token then under the cursor, however
\* long the frame was: the tick advances while that much has accumulated.
C28_CatchUp ==
    [][(TickStep /\ ~HasEvent(events', "onEnd"))
         => accumulatedTime' < RequiredInterval']_vars

\* C29: from play() on, every tick adds the frame's elapsed time to the
\* accumulator and an advance takes exactly the interval of the token left
\* out of it, so that the elapsed times fed in always equal the intervals
\* advanced over plus the accumulator: play() starts the account at zero,
\* each tick keeps it, and no other call made while playing, seekTo apart,
\* touches it.
C29_DriftFree ==
    [][/\ (lastOp' \in {"play", "toggle"} /\ ~isPlaying)
            => (accumulatedTime' = 0 /\ lastFrameTime' = 0)
       /\ TickStep
            => /\ accumulatedTime' + (IF Advanced THEN RequiredInterval ELSE 0)
                    = accumulatedTime + FrameDelta
               /\ lastFrameTime' = now'
       /\ (isPlaying /\ lastOp' \in {"play", "setWpm", "setChunkSize"})
            => UNCHANGED <<accumulatedTime, lastFrameTime>>
      ]_vars

\* C29 witness: at 300 words per minute a frame of 300 ms has left 100 ms in
\* the accumulator after the advance to the second token
C29_Witness ==
    /\ lastOp = "tick"
    /\ isPlaying
    /\ currentWpm = 300
    /\ currentChunkSize = 1
    /\ currentIndex = 1
    /\ ~tokens[1].hasSentenceEnd
    /\ accumulatedTime = 100
    /\ lastFrameTime = now

\* the onStateChange calls among the callbacks evs
StateChanges(evs) == SelectSeq(evs, LAMBDA e : e.cb = "onStateChange")

\* C36: on a non-empty stream every operation and every tick calls
\* onStateChange exactly when it changes the playing flag, once and with the
\* new value.  The flag is false at construction, so the values emitted are
\* true, false, true, ... and the flag is always the last value emitted.
C36_StateChangesAlternate ==
    [][Len(tokens) > 0 =>
          IF isPlaying' # isPlaying
          THEN StateChanges(events') = <<OnStateChange(currentIndex', isPlaying')>>
          ELSE StateChanges(events') = <<>>]_vars

\* C36 witness: a tick has reached the end of a non-empty stream, stopped the
\* engine and signalled it
C36_Witness ==
    /\ Len(tokens) > 0
    /\ lastOp = "tick"
    /\ ~isPlaying
    /\ StateChanges(events) = <<OnStateChange(currentIndex, FALSE)>>
    /\ HasEvent(events, "onEnd")

\* C37: on a non-empty stream, between operations and ticks, at most one tick
\* is pending, one is pending exactly when the engine is playing, and it is
\* the one the engine holds the id of.
C37_SingleTickChain ==
    Len(tokens) > 0 =>
        /\ Cardinality(pendingFrames) <= 1
        /\ isPlaying <=> pendingFrames # {}
        /\ isPlaying => pendingFrames = {animationFrameId}

\* C37 witness: with the cursor past the first token a toggle has started
\* the engine, and one tick is pending
C37_Witness ==
    /\ Len(tokens) > 0
    /\ lastOp = "toggle"
    /\ isPlaying
    /\ currentIndex > 0
    /\ lastFrameTime = 0
    /\ Cardinality(pendingFrames) = 1

(***************************************************************************)
(* The extractor's specification: a book is fixed (the archive's content   *)
(* documents, the package's manifest and spine, the navigation points      *)
(* parseNcx returned) and extractChaptersWithNav is applied to it.         *)
(***************************************************************************)

\* content documents the archives are made of
DocTwoSections ==
    [readable |-> TRUE, title |-> "Chapter 1",
     nodes |-> <<[tag |-> "h1", id |-> "", text |-> "Dawn"],
                 [tag |-> "text", id |-> "", text |-> "\n"],
                 [tag |-> "p", id |-> "s1", text |-> "a a a a a a a a a a."],
                 [tag |-> "nav", id |-> "", text |-> "toc"],
                 [tag |-> "text", id |-> "", text |-> " "],
                 [tag |-> "p", id |-> "s2", text |-> "b b b b b b b b b b b"]>>]
DocShort ==
    [readable |-> TRUE, title |-> "Section 2",
     nodes |-> <<[tag |-> "p", id |-> "s1", text |-> "c \" c."]>>]
DocBlank ==
    [readable |-> TRUE, title |-> "",
     nodes |-> <<[tag |-> "text", id |-> "", text |-> " \n "],
                 [tag |-> "script", id |-> "", text |-> "x"]>>]
Docs == {DocTwoSections, DocShort, DocBlank, Absent}

BookDir == "OEBPS/"
ContentFiles == {"a.xhtml", "b.html"}

Manifest ==
    [id \in {"ch1", "ch2", "cover"} |->
        CASE id = "ch1" -> [href |-> "a.xhtml", mediaType |-> "application/xhtml+xml"]
          [] id = "ch2" -> [href |-> "b.html", mediaType |-> ""]
          [] id = "cover" -> [href |-> "cover.jpg", mediaType |-> "image/jpeg"]]

Spines == {<<>>, <<"ch1", "ch2">>, <<"cover", "ch2", "ch1">>}

Archives ==
    {[path \in {BookDir \o f : f \in ContentFiles} \cup {BookDir \o "cover.jpg"} |->
         IF path = BookDir \o "a.xhtml" THEN a
         ELSE IF path = BookDir \o "b.html" THEN b
         ELSE DocBlank] : a \in Docs, b \in Docs}

NavPointPool ==
    {[label |-> IF frag = "" THEN "Opening" ELSE "Part " \o frag,
      file |-> f, fragment |-> frag, depth |-> 0] :
        f \in ContentFiles, frag \in {"", "s1", "s2"}}

NavPointLists == UNION {[1..n -> NavPointPool] : n \in 0..MaxNav}

\* the scheduler's variables while the extractor is being followed
EngineIdle ==
    /\ tokens = <<>>
    /\ currentIndex = 0
    /\ currentWpm = 300
    /\ currentChunkSize = 1
    /\ isPlaying = FALSE
    /\ lastFrameTime = 0
    /\ accumulatedTime = 0
    /\ animationFrameId = 0
    /\ pendingFrames = {}
    /\ now = StartTime
    /\ lastOp = "none"
    /\ lastArg = 0
    /\ events = <<>>
    /\ returned = <<>>
    /\ raised = FALSE

ExtractInit ==
    /\ archive \in [zip : Archives, spine : Spines, manifest : {Manifest},
                    opfDir : {BookDir}, navPoints : NavPointLists]
    /\ chapters = <<>>
    /\ phase = "input"
    /\ EngineIdle
    /\ AppIdle
    /\ args = <<>>

\* parseEpub, step 5
Extract ==
    /\ phase = "input"
    /\ chapters' = extractChaptersWithNav(archive.zip, archive.spine, archive.manifest,
                                          archive.opfDir, archive.navPoints)
    /\ phase' = "done"
    /\ UNCHANGED <<archive, engineVars, args, appVars>>

\* handleFile: tokens = tokenizeChapters(bookData.chapters)
Tokenize ==
    /\ phase = "done"
    /\ tokens' = tokenizeChapters(chapters)
    /\ phase' = "tokenized"
    /\ UNCHANGED <<currentIndex, currentWpm, currentChunkSize, isPlaying,
                   lastFrameTime, accumulatedTime, animationFrameId,
                   pendingFrames, now, lastOp, lastArg, events, returned, raised,
                   archive, chapters, args, appVars>>

ExtractNext == Extract \/ Tokenize

ExtractSpec == ExtractInit /\ [][ExtractNext]_vars

(***************************************************************************)
(* The tokenizer's specification: one chapter, as the extractor leaves it  *)
(* (its text trimmed, whitespace collapsed and not empty), is tokenized.   *)
(***************************************************************************)
TextAlphabet == {"a", ".", "?", "\"", "»", " "}

RECURSIVE TextsUpTo(_)
TextsUpTo(n) ==
    IF n = 0
    THEN {""}
    ELSE LET shorter == TextsUpTo(n - 1)
         IN  shorter \cup {t \o c : t \in shorter, c \in TextAlphabet}

ChapterTexts ==
    {t \in TextsUpTo(MaxTextLen) : t # "" /\ CleanWhitespace(t) = t}
      \cup {"end.", "Really?!", "middle.word", "(word)", "[a]", "\"(a)\""}

TokenizerInit ==
    /\ \E t \in ChapterTexts :
         chapters = <<[id |-> "ch1", title |-> "Part 1", text |-> t,
                       wordCount |-> countWords(t)]>>
    /\ archive = <<>>
    /\ phase = "done"
    /\ EngineIdle
    /\ AppIdle
    /\ args = <<>>

TokenizerNext == Tokenize

TokenizerSpec == TokenizerInit /\ [][TokenizerNext]_vars

(***************************************************************************)
(* The index conversions' specification: a chapter list (of the chapters   *)
(* only wordCount is read, which the extractor leaves positive) and either *)
(* a global index or a position are fixed; one conversion is applied to    *)
(* them and then the other to its result.                                  *)
(***************************************************************************)
ChapterLists ==
    UNION {[1..n -> [wordCount : 1..MaxWords]] : n \in 0..MaxChapters}

GlobalIndexes == -2..(MaxChapters * MaxWords + 1)

IndexArgs ==
    {[from |-> "globalIndex", globalIndex |-> g,
      chapterIndex |-> 0, wordIndexInChapter |-> 0] : g \in GlobalIndexes}
      \cup
    {[from |-> "position", globalIndex |-> 0,
      chapterIndex |-> c, wordIndexInChapter |-> w] :
         c \in 0..(MaxChapters - 1), w \in 0..(MaxWords - 1)}

IndexInit ==
    /\ chapters \in ChapterLists
    /\ args \in IndexArgs
    /\ archive = <<>>
    /\ phase = "call"
    /\ EngineIdle
    /\ AppIdle

\* what a call of a pure function leaves alone besides its arguments
CallFrame ==
    UNCHANGED <<tokens, currentIndex, currentWpm, currentChunkSize, isPlaying,
                lastFrameTime, accumulatedTime, animationFrameId, pendingFrames,
                now, lastArg, events, archive, chapters, phase, args, appVars>>

\* getChapterPosition(chapters, globalIndex), on the global index given or
\* on the one getGlobalIndex has just returned
CallGetChapterPosition ==
    /\ phase = "call"
    /\ \/ /\ returned = <<>>
          /\ args.from = "globalIndex"
          /\ returned' = <<getChapterPosition(chapters, args.globalIndex)>>
       \/ /\ Len(returned) = 1
          /\ lastOp = "getGlobalIndex"
          /\ returned' = Append(returned, getChapterPosition(chapters, returned[1]))
    /\ lastOp' = "getChapterPosition"
    /\ raised' = FALSE
    /\ CallFrame

\* getGlobalIndex(chapters, chapterIndex, wordIndexInChapter), on the position
\* given or on the one getChapterPosition has just returned
CallGetGlobalIndex ==
    /\ phase = "call"
    /\ \/ /\ returned = <<>>
          /\ args.from = "position"
          /\ returned' = <<getGlobalIndex(chapters, args.chapterIndex,
                                          args.wordIndexInChapter)>>
       \/ /\ Len(returned) = 1
          /\ lastOp = "getChapterPosition"
          /\ returned' = Append(returned,
                               getGlobalIndex(chapters, returned[1].chapterIndex,
                                              returned[1].wordIndexInChapter))
    /\ lastOp' = "getGlobalIndex"
    /\ raised' = FALSE
    /\ CallFrame

IndexNext == CallGetChapterPosition \/ CallGetGlobalIndex

IndexSpec == IndexInit /\ [][IndexNext]_vars

(***************************************************************************)
(* The sentence navigation's specification: a token stream and an index    *)
(* are fixed and one of the two searches is applied to them.               *)
(***************************************************************************)
SentenceIndexes == -1..(MaxLen + 1)

SentenceInit ==
    /\ tokens \in TokenStreams
    /\ args \in [currentIndex : SentenceIndexes]
    /\ currentIndex = 0
    /\ currentWpm = 300
    /\ currentChunkSize = 1
    /\ isPlaying = FALSE
    /\ lastFrameTime = 0
    /\ accumulatedTime = 0
    /\ animationFrameId = 0
    /\ pendingFrames = {}
    /\ now = StartTime
    /\ lastOp = "none"
    /\ lastArg = 0
    /\ events = <<>>
    /\ returned = <<>>
    /\ raised = FALSE
    /\ archive = <<>>
    /\ chapters = <<>>
    /\ phase = "call"
    /\ AppIdle

\* the variables take what a search gave
Gave(result, op) ==
    /\ returned' = IF result.raised THEN <<>> ELSE <<result.value>>
    /\ raised' = result.raised
    /\ lastOp' = op
    /\ CallFrame

CallFindPreviousSentenceStart ==
    /\ phase = "call"
    /\ lastOp = "none"
    /\ Gave(findPreviousSentenceStart(tokens, args.currentIndex),
            "findPreviousSentenceStart")

CallFindNextSentenceStart ==
    /\ phase = "call"
    /\ lastOp = "none"
    /\ Gave(findNextSentenceStart(tokens, args.currentIndex),
            "findNextSentenceStart")

SentenceNext == CallFindPreviousSentenceStart \/ CallFindNextSentenceStart

SentenceSpec == SentenceInit /\ [][SentenceNext]_vars

(***************************************************************************)
(* The recognition point's specification: a word is fixed and one of the   *)
(* two functions is applied to it.  The words are the pieces of a long     *)
(* word, so that every length has several words.                           *)
(***************************************************************************)
SampleWord == "internationalization"

Words ==
    {""} \cup {SubSeq(SampleWord, a, b) :
                  a \in 1..Len(SampleWord),
                  b \in 1..Len(SampleWord)}

OrpInit ==
    /\ args \in [word : {w \in Words : Len(w) <= MaxWordLength}]
    /\ archive = <<>>
    /\ chapters = <<>>
    /\ phase = "call"
    /\ EngineIdle
    /\ AppIdle

CallCalculateOrpIndex ==
    /\ phase = "call"
    /\ lastOp = "none"
    /\ returned' = <<calculateOrpIndex(args.word)>>
    /\ raised' = FALSE
    /\ lastOp' = "calculateOrpIndex"
    /\ CallFrame

\* displaySingleWord: splitWordAtOrp(word)
CallSplitWordAtOrp ==
    /\ phase = "call"
    /\ lastOp = "none"
    /\ returned' = <<splitWordAtOrp(args.word)>>
    /\ raised' = FALSE
    /\ lastOp' = "splitWordAtOrp"
    /\ CallFrame

OrpNext == CallCalculateOrpIndex \/ CallSplitWordAtOrp

OrpSpec == OrpInit /\ [][OrpNext]_vars

(***************************************************************************)
(* The title filter's specification: a heading is fixed and the filter is  *)
(* applied to it.  The headings are the listed placeholder words in three  *)
(* spellings, alone, numbered and with a letter appended, and some titles. *)
(***************************************************************************)
LowerHeadings ==
    {"unknown", "nieznany", "untitled", "chapter", "section", "part", "index",
     "content", "document"}
CapitalHeadings ==
    {"Unknown", "Nieznany", "Untitled", "Chapter", "Section", "Part", "Index",
     "Content", "Document"}
UpperHeadings ==
    {"UNKNOWN", "NIEZNANY", "UNTITLED", "CHAPTER", "SECTION", "PART", "INDEX",
     "CONTENT", "DOCUMENT"}

Headings ==
    LET stems == LowerHeadings \cup CapitalHeadings \cup UpperHeadings
    IN  stems \cup {h \o " 2" : h \in stems} \cup {h \o "s" : h \in stems}
          \cup {h \o "-2" : h \in stems}
          \cup {"", "The Awakening", "Chapters", "Section 2", "A chapter",
                "The part", "Partition", "Indexes 2", "X"}

TitleInit ==
    /\ args \in [title : Headings]
    /\ archive = <<>>
    /\ chapters = <<>>
    /\ phase = "call"
    /\ EngineIdle
    /\ AppIdle

\* extractTextFromHtml: heading && isValidTitle(heading)
CallIsValidTitle ==
    /\ phase = "call"
    /\ lastOp = "none"
    /\ returned' = <<isValidTitle(args.title)>>
    /\ raised' = FALSE
    /\ lastOp' = "isValidTitle"
    /\ CallFrame

TitleNext == CallIsValidTitle

TitleSpec == TitleInit /\ [][TitleNext]_vars

(***************************************************************************)
(* main.js: the application around the parser, the tokenizer and the       *)
(* engine.  Its handlers are operators on the engine's state and on the    *)
(* store m = [savedBook, savedPosition, lastPositionSaveTime]; the screen  *)
(* shown is kept in phase ("landing", "resume", "bookInfo", "reader").     *)
(* localStorage is taken to accept every write (the catch branches of      *)
(* storage.js only log), and the savedAt stamps are left out.              *)
(***************************************************************************)
POSITION_SAVE_INTERVAL == 5000

\* Date.now() at the host clock's origin, and Date.now()
PageLoadDate == 10000
DateNow == PageLoadDate + now

Store ==
    [savedBook |-> savedBook, savedPosition |-> savedPosition,
     lastPositionSaveTime |-> lastPositionSaveTime]

\* the reference's fileName and fileSize; nothing reads its other fields back
\* but the resume prompt's labels
saveBookReference(data, file) ==
    <<[fileName |-> file.name, fileSize |-> file.size]>>

saveReadingPosition(wordIndex, chapterIndex) ==
    <<[wordIndex |-> wordIndex, chapterIndex |-> chapterIndex]>>

isMatchingSavedBook(saved, file) ==
    /\ saved # <<>>
    /\ saved[1].fileName = file.name
    /\ saved[1].fileSize = file.size

clearBookData(m) == [m EXCEPT !.savedBook = <<>>, !.savedPosition = <<>>]

\* const token = tokens[index]; if (token) saveReadingPosition(...)
SaveTokenPosition(m, toks, index) ==
    IF index >= 0 /\ index < Len(toks)
    THEN [m EXCEPT !.savedPosition =
                       saveReadingPosition(index, toks[index + 1].chapterIndex)]
    ELSE m

\* mutant: the position is saved with the first chapter's index
handleStateChange_FirstChapter(m, toks, engineSet, index, playing) ==
    IF playing \/ ~engineSet \/ ~(index >= 0 /\ index < Len(toks))
    THEN m
    ELSE [m EXCEPT !.savedPosition = saveReadingPosition(index, 0)]

\* index is what engine.getCurrentIndex() gives the handler
handleStateChange(m, toks, engineSet, index, playing) ==
    IF playing \/ ~engineSet THEN m ELSE SaveTokenPosition(m, toks, index)

handleProgress(m, toks, engineSet, index, date) ==
    IF date - m.lastPositionSaveTime > POSITION_SAVE_INTERVAL /\ engineSet
    THEN SaveTokenPosition([m EXCEPT !.lastPositionSaveTime = date], toks, index)
    ELSE m

handleEnd(m, toks, data) ==
    [m EXCEPT !.savedPosition =
                  saveReadingPosition(Len(toks) - 1, Len(data.chapters) - 1)]

\* the engine's callbacks, run in the order the operation invoked them
RECURSIVE Dispatch(_, _, _, _, _, _)
Dispatch(m, evs, toks, data, engineSet, date) ==
    IF evs = <<>>
    THEN m
    ELSE LET e == Head(evs)
             m1 == CASE e.cb = "onStateChange" ->
                          handleStateChange(m, toks, engineSet, e.index, e.playing)
                     [] e.cb = "onProgress" ->
                          handleProgress(m, toks, engineSet, e.index, date)
                     [] e.cb = "onEnd" -> handleEnd(m, toks, data)
                     [] OTHER -> m
         IN  Dispatch(m1, Tail(evs), toks, data, engineSet, date)

\* the callbacks of an engine being created reach the handlers while the
\* variable engine still holds the engine before it: getCurrentIndex() gives
\* that engine's cursor
SeenFrom(evs, index) == [k \in 1..Len(evs) |-> [evs[k] EXCEPT !.index = index]]

\* startReading with a book loaded: the engine record se and the store m it
\* leaves; s0 is the engine before it, if there is one
startReading(s0, engineSet, toks, data, file, m0, prefs, date) ==
    LET destroyed == IF engineSet THEN destroy([s0 EXCEPT !.out = <<>>]) ELSE s0
        m1 == Dispatch(m0, destroyed.out, toks, data, engineSet, date)
        created == createRsvpEngine(prefs.wpm, IF prefs.chunkSize = 0 THEN 1
                                               ELSE prefs.chunkSize)
        m2 == Dispatch(m1, SeenFrom(created.out, destroyed.currentIndex), toks,
                       data, engineSet, date)
        isResume == isMatchingSavedBook(m2.savedBook, file)
        resumes == /\ isResume
                   /\ m2.savedPosition # <<>>
                   /\ m2.savedPosition[1].wordIndex > 0
        sought == IF resumes
                  THEN seekTo([created EXCEPT !.out = <<>>],
                              m2.savedPosition[1].wordIndex)
                  ELSE [created EXCEPT !.out = <<>>]
        m3 == IF isResume
              THEN Dispatch(m2, sought.out, toks, data, TRUE, date)
              ELSE [clearBookData(m2) EXCEPT !.savedBook = saveBookReference(data, file)]
    IN  [se |-> [sought EXCEPT !.out = destroyed.out \o created.out \o sought.out],
         m |-> m3]

stepBackward(s) ==
    IF s.isPlaying
    THEN s
    ELSE IF s.currentIndex > 0 THEN seekTo(s, s.currentIndex - 1) ELSE s

\* mutant: the step is taken while the engine is playing, too
stepForward_WhilePlaying(s) ==
    IF s.currentIndex < Len(tokens) - 1 THEN seekTo(s, s.currentIndex + 1) ELSE s

stepForward(s) ==
    IF s.isPlaying
    THEN s
    ELSE IF s.currentIndex < Len(tokens) - 1 THEN seekTo(s, s.currentIndex + 1) ELSE s

\* the variables take the engine state se and the store m a handler left,
\* and the screen it shows
AppCommit(se, m, op, arg, screen) ==
    /\ currentIndex' = se.currentIndex
    /\ currentWpm' = se.currentWpm
    /\ currentChunkSize' = se.currentChunkSize
    /\ isPlaying' = se.isPlaying
    /\ lastFrameTime' = se.lastFrameTime
    /\ accumulatedTime' = se.accumulatedTime
    /\ animationFrameId' = se.animationFrameId
    /\ pendingFrames' = se.pendingFrames
    /\ events' = se.out
    /\ returned' = se.ret
    /\ raised' = se.raised
    /\ lastOp' = op
    /\ lastArg' = arg
    /\ savedBook' = m.savedBook
    /\ savedPosition' = m.savedPosition
    /\ lastPositionSaveTime' = m.lastPositionSaveTime
    /\ phase' = screen
    /\ UNCHANGED <<archive, chapters, args, preferences>>

\* the engine's variables before startReading has created an engine
NoEngine ==
    /\ currentIndex = 0
    /\ currentWpm = 300
    /\ currentChunkSize = 1
    /\ isPlaying = FALSE
    /\ lastFrameTime = 0
    /\ accumulatedTime = 0
    /\ animationFrameId = 0
    /\ pendingFrames = {}
    /\ now = StartTime
    /\ lastOp = "none"
    /\ lastArg = 0
    /\ events = <<>>
    /\ returned = <<>>
    /\ raised = FALSE
    /\ engine = "null"
    /\ lastPositionSaveTime = 0

\* startReadingBtn.onclick = startReading, on the book info screen
ClickStartReading ==
    /\ phase = "bookInfo"
    /\ bookData # <<>>
    /\ LET r == startReading(Cur, engine = "created", tokens, bookData[1],
                             currentFile[1], Store, preferences, DateNow)
       IN  AppCommit(r.se, r.m, "startReading", 0, "reader")
    /\ engine' = "created"
    /\ UNCHANGED <<tokens, bookData, currentFile, currentFileHandle, now>>

\* a key of handleKeydown that calls the engine, while the reader is shown
Key(se, op, screen) ==
    /\ phase = "reader"
    /\ engine = "created"
    /\ AppCommit(se, Dispatch(Store, se.out, tokens, bookData[1], TRUE, DateNow),
                 op, 0, screen)
    /\ UNCHANGED <<tokens, bookData, currentFile, currentFileHandle, engine, now>>

\* Space: engine?.toggle()
KeySpace == Key(toggle(Cur), "toggle", "reader")

\* Escape: engine?.pause(); showBookInfoScreen()
KeyEscape == Key(pause(Cur), "pause", "bookInfo")

KeyJ == Key(stepBackward(Cur), "stepBackward", "reader")

KeyK == Key(stepForward(Cur), "stepForward", "reader")

\* an idle stretch of the host: a tab in the background gets no frames
LongIdle == 6000

\* the host's clock moves by a frame step while at most Horizon ms of them
\* have passed since the start or since the idle stretch, and there is at
\* most one idle stretch
TimeSteps ==
    {d \in FrameSteps : ((now - StartTime) % LongIdle) + d <= Horizon}
      \cup {d \in {LongIdle} : now - StartTime < LongIdle}

\* the host's next frame runs tick, whose callbacks reach main.js's handlers
ReaderFrame ==
    \E id \in pendingFrames, d \in TimeSteps :
        /\ engine = "created"
        /\ now' = now + d
        /\ LET se == tick([Cur EXCEPT !.pendingFrames = @ \ {id}], now + d)
           IN  AppCommit(se, Dispatch(Store, se.out, tokens, bookData[1], TRUE,
                                      PageLoadDate + now + d),
                         "tick", now + d, phase)
        /\ UNCHANGED <<tokens, bookData, currentFile, currentFileHandle, engine>>

ReaderWait ==
    \E d \in TimeSteps :
        /\ pendingFrames = {}
        /\ phase = "reader"
        /\ now' = now + d
        /\ AppCommit(Cur, Store, "wait", 0, phase)
        /\ UNCHANGED <<tokens, bookData, currentFile, currentFileHandle, engine>>

(***************************************************************************)
(* The reader's specification: handleFile has loaded a book and shows the  *)
(* book info screen; the user starts reading, plays, pauses, steps and     *)
(* leaves the reader, frames run and time passes.  localStorage may hold   *)
(* a position from an earlier session.                                     *)
(***************************************************************************)
ReaderTexts == {"a", "b c."}

ReaderChapters ==
    {chs \in UNION {[1..n -> [id : {"ch"}, title : {"T"}, text : ReaderTexts,
                              wordCount : 1..2]] : n \in 0..MaxChapters} :
        /\ \A k \in 1..Len(chs) : chs[k].wordCount = countWords(chs[k].text)
        /\ totalWords(chs) <= MaxLen}

ReaderFile == [name |-> "book.epub", size |-> 1]

ReaderInit ==
    /\ \E chs \in ReaderChapters :
         /\ bookData = <<[chapters |-> chs, totalWords |-> totalWords(chs)]>>
         /\ tokens = tokenizeChapters(chs)
         /\ savedBook = saveBookReference([chapters |-> chs,
                                           totalWords |-> totalWords(chs)],
                                          ReaderFile)
    /\ currentFile = <<ReaderFile>>
    /\ currentFileHandle = <<>>
    /\ savedPosition \in {<<>>, saveReadingPosition(1, 0),
                          saveReadingPosition(MaxLen, 0)}
    /\ preferences \in [wpm : {300}, chunkSize : {1, 2}]
    /\ NoEngine
    /\ phase = "bookInfo"
    /\ archive = <<>>
    /\ chapters = <<>>
    /\ args = <<>>

ReaderNext ==
    \/ ClickStartReading
    \/ KeySpace
    \/ KeyEscape
    \/ KeyJ
    \/ KeyK
    \/ ReaderFrame
    \/ ReaderWait

ReaderSpec == ReaderInit /\ [][ReaderNext]_vars

(***************************************************************************)
(* The loader's specification: the page has loaded, localStorage may hold  *)
(* the book of an earlier session; the user picks or drops files, reloads  *)
(* the saved file, chooses a different book, starts reading and leaves the *)
(* reader.  An EPUB file is its name, its size and what its archive lacks. *)
(***************************************************************************)
PackagePath == BookDir \o "content.opf"

\* the books: what their archives hold when they are sound
BookContents ==
    {[name |-> "a.epub", size |-> 10,
      zip |-> [path \in {BookDir \o "a.xhtml", BookDir \o "b.html"} |-> DocShort],
      spine |-> <<"ch1", "ch2">>, navPoints |-> <<>>],
     [name |-> "b.epub", size |-> 20,
      zip |-> [path \in {BookDir \o "a.xhtml", BookDir \o "b.html"} |->
                  IF path = BookDir \o "a.xhtml" THEN DocBlank ELSE DocShort],
      spine |-> <<"cover", "ch2", "ch1">>, navPoints |-> <<>>]}

\* a file is sound, or lacks container.xml, or has a container.xml that names
\* no rootfile, or lacks the package document
EpubFiles ==
    {[name |-> b.name, size |-> b.size, structure |-> st] :
        b \in BookContents,
        st \in {"sound", "noContainer", "noRootfile", "noPackage"}}

\* JSZip.loadAsync(file): the entries of the archive
loadAsync(file) ==
    LET b == CHOOSE c \in BookContents : c.name = file.name
    IN  [container |->
             IF file.structure = "noContainer"
             THEN [present |-> FALSE, fullPath |-> ""]
             ELSE [present |-> TRUE,
                   fullPath |-> IF file.structure = "noRootfile" THEN ""
                                ELSE PackagePath],
         package |-> [present |-> file.structure # "noPackage",
                      path |-> PackagePath, spine |-> b.spine,
                      manifest |-> Manifest, navPoints |-> b.navPoints],
         documents |-> b.zip]

\* rootfile?.getAttribute('full-path') || null, "" for null
getOpfPath(containerXml) == containerXml.fullPath

\* opfPath.substring(0, opfPath.lastIndexOf('/') + 1)
DirectoryOf(opfPath) ==
    LET slashes == {i \in 1..Len(opfPath) : CharAt(opfPath, i) = "/"}
    IN  IF slashes = {} THEN ""
        ELSE SubSeq(opfPath, 1, CHOOSE i \in slashes : \A j \in slashes : j <= i)

Failed(message) == [raised |-> TRUE, message |-> message, data |-> <<>>]

\* parseEpub: what it throws or the book data it returns
parseEpub(file) ==
    LET zip == loadAsync(file)
    IN  IF ~zip.container.present
        THEN Failed("Invalid EPUB: Missing container.xml")
        ELSE LET opfPath == getOpfPath(zip.container)
             IN  IF opfPath = ""
                 THEN Failed("Invalid EPUB: Cannot find OPF file path")
                 ELSE IF ~(zip.package.present /\ zip.package.path = opfPath)
                 THEN Failed("Invalid EPUB: Cannot read OPF file")
                 ELSE LET chs == extractChaptersWithNav(
                                     zip.documents, zip.package.spine,
                                     zip.package.manifest, DirectoryOf(opfPath),
                                     zip.package.navPoints)
                      IN  [raised |-> FALSE, message |-> "",
                           data |-> <<[chapters |-> chs,
                                       totalWords |-> totalWords(chs)]>>]

\* what a handler of the loader leaves alone in the engine
LoadFrame ==
    UNCHANGED <<currentIndex, currentWpm, currentChunkSize, isPlaying,
                lastFrameTime, accumulatedTime, animationFrameId, pendingFrames,
                now, engine, lastPositionSaveTime, archive, chapters, args,
                preferences>>

\* handleError(error): the message is alerted, the landing screen shown
handleError(message, op) ==
    /\ raised' = TRUE
    /\ returned' = <<message>>
    /\ lastOp' = op
    /\ lastArg' = 0
    /\ events' = <<>>

\* displayBookInfo(data, isResume): the text it gives the start button;
\* Math.round of a division by 0 prints as Infinity
displayBookInfo(data, isResume, position) ==
    IF isResume /\ position # <<>> /\ position[1].wordIndex > 0
    THEN "Resume Reading ("
           \o (IF data.totalWords = 0
               THEN "Infinity"
               ELSE Decimal((200 * position[1].wordIndex + data.totalWords)
                              \div (2 * data.totalWords)))
           \o "%)"
    ELSE "Start Reading"

\* handleFile(file, handle)
HandleFile ==
    \E file \in EpubFiles : \E handle \in {<<>>, <<[name |-> file.name]>>} :
        \E parsed \in {parseEpub(file)} :
            /\ phase \in {"landing", "resume", "bookInfo"}
            /\ currentFile' = <<file>>
            /\ currentFileHandle' = handle
            /\ IF parsed.raised
               THEN /\ handleError(parsed.message, "handleFile")
                    /\ phase' = "landing"
                    /\ UNCHANGED <<bookData, tokens, savedBook>>
               ELSE /\ bookData' = parsed.data
                    /\ tokens' = tokenizeChapters(parsed.data[1].chapters)
                    /\ savedBook' = saveBookReference(parsed.data[1], file)
                    /\ phase' = "bookInfo"
                    /\ raised' = FALSE
                    /\ returned' = <<displayBookInfo(
                                        parsed.data[1],
                                        isMatchingSavedBook(savedBook, file),
                                        savedPosition)>>
                    /\ lastOp' = "handleFile"
                    /\ lastArg' = 0
                    /\ events' = <<>>
            /\ UNCHANGED savedPosition
            /\ LoadFrame

\* handleReloadSavedFile: loadSavedFile() gives null
ReloadUnavailable ==
    /\ handleError("Could not access the saved file. Please select it again.",
                   "handleReloadSavedFile")
    /\ phase' = "landing"
    /\ UNCHANGED <<tokens, bookData, currentFile, savedBook, savedPosition>>
    /\ LoadFrame

\* handleReloadSavedFile: the file's name or size is not the saved one
ReloadModified(file) ==
    /\ ~isMatchingSavedBook(savedBook, file)
    /\ handleError("The saved file has been modified. Please select it again.",
                   "handleReloadSavedFile")
    /\ phase' = "resume"
    /\ UNCHANGED <<tokens, bookData, currentFile, savedBook, savedPosition>>
    /\ LoadFrame

\* handleReloadSavedFile: parseEpub throws
ReloadFails(file, parsed) ==
    /\ isMatchingSavedBook(savedBook, file)
    /\ parsed.raised
    /\ currentFile' = <<file>>
    /\ handleError(parsed.message, "handleReloadSavedFile")
    /\ phase' = "landing"
    /\ UNCHANGED <<tokens, bookData, savedBook, savedPosition>>
    /\ LoadFrame

\* handleReloadSavedFile: the book is parsed and tokenized, startReading()
\* runs on the new tokens
ReloadStarts(file, parsed, s0, m0, prefs, date) ==
    /\ isMatchingSavedBook(savedBook, file)
    /\ ~parsed.raised
    /\ currentFile' = <<file>>
    /\ bookData' = parsed.data
    /\ tokens' = tokenizeChapters(parsed.data[1].chapters)
    /\ \E r \in {startReading(s0, FALSE, tokens, parsed.data[1], file, m0, prefs,
                                date)'} :
           AppCommit(r.se, r.m, "handleReloadSavedFile", 0, "reader")
    /\ engine' = "created"
    /\ UNCHANGED now

\* handleReloadSavedFile, loadSavedFile() giving null or the file now stored
\* where the saved handle points
HandleReloadSavedFile ==
    /\ phase = "resume"
    /\ savedBook # <<>>
    /\ UNCHANGED currentFileHandle
    /\ \/ ReloadUnavailable
       \/ \E file \in EpubFiles :
              \/ ReloadModified(file)
              \/ \E parsed \in {parseEpub(file)} :
                     \/ ReloadFails(file, parsed)
                     \/ \E s0 \in {Cur}, m0 \in {Store}, prefs \in {preferences},
                            date \in {DateNow} :
                            ReloadStarts(file, parsed, s0, m0, prefs, date)

\* chooseDifferentBtn's click handler
ChooseDifferent ==
    /\ phase \in {"resume", "bookInfo"}
    /\ savedBook' = <<>>
    /\ savedPosition' = <<>>
    /\ bookData' = <<>>
    /\ tokens' = <<>>
    /\ currentFile' = <<>>
    /\ currentFileHandle' = <<>>
    /\ phase' = "landing"
    /\ lastOp' = "chooseDifferent"
    /\ lastArg' = 0
    /\ events' = <<>>
    /\ returned' = <<>>
    /\ raised' = FALSE
    /\ LoadFrame

LoadInit ==
    /\ tokens = <<>>
    /\ bookData = <<>>
    /\ currentFile = <<>>
    /\ currentFileHandle = <<>>
    /\ savedBook \in {<<>>} \cup
          {<<[fileName |-> b.name, fileSize |-> b.size]>> : b \in BookContents}
    /\ savedPosition = IF savedBook = <<>> THEN <<>> ELSE saveReadingPosition(1, 0)
    /\ preferences = [wpm |-> 300, chunkSize |-> 1]
    /\ NoEngine
    /\ phase = IF savedBook = <<>> THEN "landing" ELSE "resume"
    /\ archive = <<>>
    /\ chapters = <<>>
    /\ args = <<>>

LoadNext ==
    \/ HandleFile
    \/ HandleReloadSavedFile
    \/ ChooseDifferent
    \/ ClickStartReading
    \/ KeyEscape

LoadSpec == LoadInit /\ [][LoadNext]_vars

(***************************************************************************)
(* The playback specification: one engine on a non-empty stream is played, *)
(* paused and played again, its chunk size is changed between ticks,       *)
(* frames run, and the host is idle while the engine is paused.  seekTo is *)
(* called only before the first play.  An observer of the callbacks keeps  *)
(* notes in args: the cursor the first play started at (-1 before it), the *)
(* indices of the tokens in the chunks onWord has been given since, when   *)
(* the engine was paused (0 while it is not), how long the last pause was, *)
(* the cursor at the last play and the time of the first tick after it (0  *)
(* before that tick).                                                      *)
(***************************************************************************)
MaxPlayLen == 4
PlayHorizon == 1600
LongPause == 700

\* streams whose last word ends a sentence
PlaybackStreams ==
    {[k \in 1..n |-> [hasSentenceEnd |-> (k = n)]] : n \in 1..MaxPlayLen}
PlaybackChunkSizes == {1, 2, 3}
PlaybackSteps == {100, 200}

\* the indices of the tokens in the chunks the onWord calls among evs were given
Shown(evs) ==
    UNION {{evs[k].chunk[j] : j \in 1..Len(evs[k].chunk)} :
              k \in {n \in 1..Len(evs) : evs[n].cb = "onWord"}}

\* the observer's notes after an operation or a tick, run at time t, has left
\* the engine as se
Noted(se, t, ticked) ==
    LET started == isPlaying \/ se.isPlaying \/ args.from # -1
        plays == ~isPlaying /\ se.isPlaying
        pauses == isPlaying /\ ~se.isPlaying
    IN  [from |-> IF args.from = -1 /\ plays THEN se.currentIndex ELSE args.from,
         shown |-> IF started THEN args.shown \cup Shown(se.out) ELSE {},
         pausedAt |-> IF pauses THEN t ELSE IF plays THEN 0 ELSE args.pausedAt,
         pausedFor |-> IF plays
                       THEN (IF args.pausedAt = 0 THEN 0 ELSE t - args.pausedAt)
                       ELSE args.pausedFor,
         cursorAtPlay |-> IF plays THEN se.currentIndex ELSE args.cursorAtPlay,
         firstTickAt |-> IF plays THEN 0
                         ELSE IF ticked /\ isPlaying /\ args.firstTickAt = 0 THEN t
                         ELSE args.firstTickAt]

\* the variables take the engine state se, the observer takes its notes
PlaybackCommit(se, op, arg, t, ticked) ==
    /\ currentIndex' = se.currentIndex
    /\ currentWpm' = se.currentWpm
    /\ currentChunkSize' = se.currentChunkSize
    /\ isPlaying' = se.isPlaying
    /\ lastFrameTime' = se.lastFrameTime
    /\ accumulatedTime' = se.accumulatedTime
    /\ animationFrameId' = se.animationFrameId
    /\ pendingFrames' = se.pendingFrames
    /\ events' = se.out
    /\ returned' = se.ret
    /\ raised' = se.raised
    /\ lastOp' = op
    /\ lastArg' = arg
    /\ now' = t
    /\ args' = Noted(se, t, ticked)
    /\ UNCHANGED <<tokens, extractVars, appVars>>

PlaybackInit ==
    /\ tokens \in PlaybackStreams
    /\ \E chunkSize \in PlaybackChunkSizes :
         LET s == createRsvpEngine(300, chunkSize)
         IN  /\ currentIndex = s.currentIndex
             /\ currentWpm = s.currentWpm
             /\ currentChunkSize = s.currentChunkSize
             /\ isPlaying = s.isPlaying
             /\ lastFrameTime = s.lastFrameTime
             /\ accumulatedTime = s.accumulatedTime
             /\ animationFrameId = s.animationFrameId
             /\ pendingFrames = s.pendingFrames
             /\ events = s.out
             /\ returned = s.ret
             /\ raised = s.raised
             /\ lastOp = "createRsvpEngine"
             /\ lastArg = 300
    /\ now = StartTime
    /\ ExtractIdle
    /\ AppIdle
    /\ args = [from |-> -1, shown |-> {}, pausedAt |-> 0, pausedFor |-> 0,
               cursorAtPlay |-> 0, firstTickAt |-> 0]

\* the host seeks before it first plays
PlaybackSeekTo ==
    \E i \in 0..MaxPlayLen :
        /\ args.from = -1
        /\ PlaybackCommit(seekTo(Cur, i), "seekTo", i, now, FALSE)

PlaybackPlay == PlaybackCommit(play(Cur), "play", 0, now, FALSE)

PlaybackPause == PlaybackCommit(pause(Cur), "pause", 0, now, FALSE)

PlaybackSetChunkSize ==
    \E n \in PlaybackChunkSizes :
        PlaybackCommit(setChunkSize(Cur, n), "setChunkSize", n, now, FALSE)

\* the host's next frame, d ms later, runs the pending tick
PlaybackFrame ==
    \E id \in pendingFrames, d \in PlaybackSteps :
        /\ now + d <= StartTime + PlayHorizon
        /\ PlaybackCommit(tick([Cur EXCEPT !.pendingFrames = @ \ {id}], now + d),
                          "tick", now + d, now + d, TRUE)

\* the engine is paused and the host idle for a long while
PlaybackWait ==
    /\ pendingFrames = {}
    /\ args.pausedAt # 0
    /\ now + LongPause <= StartTime + PlayHorizon
    /\ PlaybackCommit(Cur, "wait", 0, now + LongPause, FALSE)

PlaybackNext ==
    \/ PlaybackSeekTo
    \/ PlaybackPlay
    \/ PlaybackPause
    \/ PlaybackSetChunkSize
    \/ PlaybackFrame
    \/ PlaybackWait

PlaybackSpec == PlaybackInit /\ [][PlaybackNext]_vars

(***************************************************************************)
(* Properties of the chapter extractor.                                    *)
(***************************************************************************)
SpineChapters ==
    extractChapters(archive.zip, archive.spine, archive.manifest, archive.opfDir)

\* C1: with more than one navigation point, when the navigation pass yields no
\* chapter or only chapters of fewer than 10 words, the extractor returns the
\* chapters of the spine-based extraction.
C1_UnusableNavigationFallsBack ==
    (/\ phase = "done"
     /\ Len(archive.navPoints) > 1
     /\ LET chs == NavChapters(archive.zip, archive.opfDir, archive.navPoints)
        IN  Len(chs) = 0 \/ \A k \in 1..Len(chs) : chs[k].wordCount < 10)
      => chapters = SpineChapters

\* C2: with no or one navigation point the chapters are those of the
\* spine-based extraction, each named after its spine entry; chapters named
\* after navigation points appear only with more than one navigation point.
C2_PathDecision ==
    (phase = "done") =>
        /\ Len(archive.navPoints) <= 1
             => /\ chapters = SpineChapters
                /\ \A k \in 1..Len(chapters) : chapters[k].id \in DOMAIN archive.manifest
        /\ (\E k \in 1..Len(chapters) : startsWith(chapters[k].id, "nav-"))
             => Len(archive.navPoints) > 1

\* C2 witness: one navigation point into a readable file with text, and the
\* chapters are the spine's
C2_Witness ==
    /\ phase = "done"
    /\ Len(archive.navPoints) = 1
    /\ NavChapters(archive.zip, archive.opfDir, archive.navPoints) # <<>>
    /\ Len(chapters) = 2
    /\ chapters[1].id = "ch2"

\* C21: every chapter either extraction path returns has wordCount equal to
\* the number of whitespace-delimited non-empty pieces of its text, and no
\* returned chapter has wordCount 0.
C21_ChapterWordCount ==
    (phase \in {"done", "tokenized"}) =>
        \A k \in 1..Len(chapters) :
            /\ chapters[k].wordCount = Len(SplitWords(chapters[k].text))
            /\ chapters[k].wordCount > 0

\* C21 witness: the navigation path has returned two chapters cut out of one
\* file at its fragments
C21_Witness ==
    /\ phase = "done"
    /\ Len(chapters) = 2
    /\ chapters[1].id = "nav-0"
    /\ chapters[1].wordCount = 11
    /\ chapters[2].id = "nav-1"
    /\ chapters[2].wordCount = 11

\* the navigation point a chapter of the navigation path was made for
NavPointOf(chapter) ==
    archive.navPoints[CHOOSE i \in 1..Len(archive.navPoints) :
                          chapter.id = "nav-" \o Decimal(i - 1)]

\* the pieces of text of a content file: its text nodes outside the removed
\* elements that are not blank
TextPieces(file) ==
    LET doc == ReadText(archive.zip, archive.opfDir \o file)
    IN  {Trim(doc.nodes[i].text) : i \in {j \in 1..Len(doc.nodes) :
                                            /\ IsKept(doc.nodes[j])
                                            /\ Trim(doc.nodes[j].text) # ""}}

\* C22: no piece of a content file's text is in more than one chapter of the
\* list returned, whatever the navigation points are.
C22_NoTextTwice ==
    (phase = "done" /\ Len(archive.navPoints) > 1) =>
        \A k1, k2 \in 1..Len(chapters) :
            (k1 < k2 /\ NavPointOf(chapters[k1]).file = NavPointOf(chapters[k2]).file)
              => \A piece \in TextPieces(NavPointOf(chapters[k1]).file) :
                     ~(includes(chapters[k1].text, piece)
                         /\ includes(chapters[k2].text, piece))

\* the spine positions whose entry is a markup document that can be read and
\* has text left after cleaning
KeptSpinePositions ==
    {i \in 1..Len(archive.spine) :
        LET item == archive.manifest[archive.spine[i]]
            doc == ReadText(archive.zip, archive.opfDir \o item.href)
        IN  /\ IsMarkup(item)
            /\ doc.readable
            /\ CleanWhitespace(textContent(RemoveNonContent(doc.nodes))) # ""}

\* the 1-based position of spine position i among the kept ones
KeptRank(i) == Cardinality({j \in KeptSpinePositions : j <= i})

\* C33: the spine-based extraction returns one chapter for each spine entry
\* that is a readable markup document with text left after cleaning, and no
\* other, in spine order; a chapter without an inferred title is titled
\* "Part N", N being its 1-based position among the chapters kept.
C33_SpineExtraction ==
    (phase = "done" /\ Len(archive.navPoints) <= 1) =>
        /\ Len(chapters) = Cardinality(KeptSpinePositions)
        /\ \A i \in KeptSpinePositions :
               LET item == archive.manifest[archive.spine[i]]
                   doc == ReadText(archive.zip, archive.opfDir \o item.href)
                   inferred == extractTextFromHtml(doc).title
                   chapter == chapters[KeptRank(i)]
               IN  /\ chapter.id = archive.spine[i]
                   /\ chapter.text = CleanWhitespace(textContent(RemoveNonContent(doc.nodes)))
                   /\ chapter.title = IF inferred # "" THEN inferred
                                      ELSE "Part " \o Decimal(KeptRank(i))

\* C33 witness: the spine's first two entries are skipped (an image and a
\* blank document) and the third, without a title of its own, is "Part 1"
C33_Witness ==
    /\ phase = "done"
    /\ Len(archive.navPoints) <= 1
    /\ Len(archive.spine) = 3
    /\ KeptSpinePositions = {3}
    /\ Len(chapters) = 1
    /\ chapters[1].id = "ch1"
    /\ chapters[1].title = "Part 1"

\* the navigation pass has been taken and its chapters returned
NavPathTaken ==
    /\ phase = "done"
    /\ Len(archive.navPoints) > 1
    /\ chapters # <<>>
    /\ startsWith(chapters[1].id, "nav-")

\* the text nodes of a content file outside the removed elements
Body(file) == RemoveNonContent(ReadText(archive.zip, archive.opfDir \o file).nodes)

\* the anchors of navigation point i: its own fragment, and the fragment of
\* its successor when that targets the same file ("" for no anchor)
AnchorA(i) == archive.navPoints[i].fragment
AnchorB(i) ==
    IF i < Len(archive.navPoints)
         /\ archive.navPoints[i + 1].file = archive.navPoints[i].file
    THEN archive.navPoints[i + 1].fragment
    ELSE ""

RECURSIVE NodeTexts(_)
NodeTexts(nodes) ==
    IF nodes = <<>> THEN "" ELSE Head(nodes).text \o " " \o NodeTexts(Tail(nodes))

\* the text at or after anchor a and strictly before anchor b in document
\* order, an absent anchor standing for the beginning and for the end
RangeText(body, a, b) ==
    LET withA == {i \in 1..Len(body) : a # "" /\ body[i].id = a}
        withB == {i \in 1..Len(body) : b # "" /\ body[i].id = b}
        from == IF withA = {} THEN 1 ELSE CHOOSE i \in withA : \A j \in withA : i <= j
        to == IF withB = {} THEN Len(body)
              ELSE (CHOOSE i \in withB : \A j \in withB : i <= j) - 1
    IN  CleanWhitespace(NodeTexts(SubSeq(body, from, to)))

\* the chapters made for navigation point i
ChaptersOfPoint(i) ==
    {k \in 1..Len(chapters) : chapters[k].id = "nav-" \o Decimal(i - 1)}

\* C31: the text extracted between anchors A and B is the text at or after A
\* and strictly before B in document order, from the beginning of the
\* document when A is not given or not in the document, to its end when B is
\* not given or not in the document.
C31_RangeExtraction ==
    NavPathTaken =>
        \A i \in 1..Len(archive.navPoints) :
            LET file == archive.navPoints[i].file
                expected == RangeText(Body(file), AnchorA(i), AnchorB(i))
            IN  (/\ ReadText(archive.zip, archive.opfDir \o file).readable
                 /\ (AnchorA(i) # "" \/ AnchorB(i) # "")
                 /\ expected # "")
                  => \E k \in ChaptersOfPoint(i) : chapters[k].text = expected

\* the text the range selection gives navigation point i
SelectedText(i) ==
    LET body == Body(archive.navPoints[i].file)
    IN  IF AnchorA(i) # "" \/ AnchorB(i) # ""
        THEN RangeText(body, AnchorA(i), AnchorB(i))
        ELSE CleanWhitespace(textContent(body))

\* C32: a navigation point with a fragment gets the range from its fragment
\* to the successor's fragment in the same file, else to the end of the file;
\* a point without a fragment whose successor is a fragment of the same file
\* gets the range from the file's start to that fragment; any other point the
\* whole cleaned text of its file.  A point has a chapter exactly when its
\* file can be read and its range is not blank, whatever the other points are.
C32_RangeSelection ==
    NavPathTaken =>
        /\ \A i \in 1..Len(archive.navPoints) :
               LET file == archive.navPoints[i].file
                   kept == /\ ReadText(archive.zip, archive.opfDir \o file).readable
                           /\ SelectedText(i) # ""
               IN  /\ kept => \E k \in ChaptersOfPoint(i) :
                                  chapters[k].text = SelectedText(i)
                   /\ ~kept => ChaptersOfPoint(i) = {}
        /\ \A k \in 1..Len(chapters) :
               \E i \in 1..Len(archive.navPoints) : k \in ChaptersOfPoint(i)

(***************************************************************************)
(* Properties of the tokenizer.                                            *)
(***************************************************************************)

\* C13: the token stream tokenizeChapters produces from the chapters the
\* extractor returned has as many tokens as the chapters' wordCount values
\* add up to, which is the book's totalWords; chapter by chapter, too.
C13_TokenCount ==
    (phase = "tokenized") =>
        /\ Len(tokens) = totalWords(chapters)
        /\ \A c \in 1..Len(chapters) :
               Cardinality({k \in 1..Len(tokens) : tokens[k].chapterIndex = c - 1})
                 = chapters[c].wordCount

\* C13 witness: two chapters tokenized, one of them with a word that is
\* empty once its quotation marks are removed
C13_Witness ==
    /\ phase = "tokenized"
    /\ archive # <<>>
    /\ Len(chapters) = 2
    /\ Len(tokens) > 10
    /\ \E k \in 1..Len(tokens) : tokens[k].word = ""

\* the places in the stream of the tokens of chapter c (0-based)
TokensOfChapter(c) == {k \in 1..Len(tokens) : tokens[k].chapterIndex = c}

\* C34: in every chapter the token with local index 0, and no other, has
\* isChapterStart, and the token with the chapter's last local index, and no
\* other, has isChapterEnd; the flags sit where the chapter index changes in
\* the stream; each token's (chapterIndex, wordIndexInChapter) is
\* getChapterPosition of its global index.
C34_ChapterBoundaryFlags ==
    (phase = "tokenized") =>
        /\ \A c \in 0..(Len(chapters) - 1) :
               LET ks == TokensOfChapter(c)
                   last == CHOOSE w \in {tokens[k].wordIndexInChapter : k \in ks} :
                               \A k \in ks : tokens[k].wordIndexInChapter <= w
               IN  /\ ks # {}
                   /\ \A k \in ks :
                          /\ tokens[k].isChapterStart <=> tokens[k].wordIndexInChapter = 0
                          /\ tokens[k].isChapterEnd <=> tokens[k].wordIndexInChapter = last
                   /\ Cardinality({k \in ks : tokens[k].isChapterStart}) = 1
                   /\ Cardinality({k \in ks : tokens[k].isChapterEnd}) = 1
        /\ \A k \in 1..Len(tokens) :
               /\ tokens[k].isChapterStart
                    <=> (k = 1 \/ tokens[k - 1].chapterIndex # tokens[k].chapterIndex)
               /\ tokens[k].isChapterEnd
                    <=> (k = Len(tokens) \/ tokens[k + 1].chapterIndex # tokens[k].chapterIndex)
               /\ getChapterPosition(chapters, k - 1)
                    = [chapterIndex |-> tokens[k].chapterIndex,
                       wordIndexInChapter |-> tokens[k].wordIndexInChapter]

\* C34 witness: a chapter of several words ends and the next one starts
C34_Witness ==
    /\ phase = "tokenized"
    /\ Len(chapters) = 3
    /\ \E k \in 2..(Len(tokens) - 1) :
           /\ tokens[k].chapterIndex = 1
           /\ tokens[k].isChapterEnd
           /\ ~tokens[k].isChapterStart
           /\ tokens[k + 1].isChapterStart
           /\ tokens[k + 1].chapterIndex = 2

\* C40: every token of the stream tokenizeChapters produces has a non-empty
\* word, also for a chapter text with a piece made of quotation marks only.
C40_NoEmptyWord ==
    (phase = "tokenized") => \A k \in 1..Len(tokens) : tokens[k].word # ""

\* the words the specification flags: ending with '.', '!' or '?', optionally
\* followed by one closing quotation mark
EndsSentence(word) ==
    \E p \in {".", "!", "?"}, q \in {"", "\"", "'", "»"} : endsWith(word, p \o q)

WrappingChars == QuoteChars \cup {"(", ")", "[", "]", "{", "}"}

\* C30: the tokenizer trims the quotation and bracket characters at the start
\* and at the end of every word: no token's word starts or ends with one, and
\* "(word)" yields the token word.
C30_TrimsQuotesAndBrackets ==
    (phase = "tokenized") =>
        /\ \A k \in 1..Len(tokens) :
               tokens[k].word # ""
                 => /\ CharAt(tokens[k].word, 1) \notin WrappingChars
                    /\ CharAt(tokens[k].word, Len(tokens[k].word)) \notin WrappingChars
        /\ chapters[1].text = "(word)"
             => (Len(tokens) = 1 /\ tokens[1].word = "word")

(***************************************************************************)
(* Properties of the index conversions.                                    *)
(***************************************************************************)

\* the positions of a chapter list: a chapter and a word of it
ValidPosition(pos) ==
    /\ pos.chapterIndex \in 0..(Len(chapters) - 1)
    /\ pos.wordIndexInChapter \in 0..(chapters[pos.chapterIndex + 1].wordCount - 1)

\* the number of words before chapter c (0-based)
RECURSIVE WordsBefore(_)
WordsBefore(c) == IF c = 0 THEN 0 ELSE WordsBefore(c - 1) + chapters[c].wordCount

WordCounts == [c \in 1..Len(chapters) |-> chapters[c].wordCount]

Position(c, w) == [chapterIndex |-> c, wordIndexInChapter |-> w]

\* C14: for a global index g with 0 <= g < total words getChapterPosition
\* returns the one valid position that has g words before it, and
\* getGlobalIndex of that position is g; for a valid position (c, w),
\* getChapterPosition of getGlobalIndex(c, w) is (c, w).  With the word
\* counts [3,5,2]: 3 is (1,0), 7 is (1,4), 8 is (2,0).
C14_IndexRoundTrip ==
    /\ (args.from = "globalIndex" /\ Len(returned) >= 1
          /\ args.globalIndex \in 0..(WordsBefore(Len(chapters)) - 1))
         => /\ ValidPosition(returned[1])
            /\ WordsBefore(returned[1].chapterIndex) + returned[1].wordIndexInChapter
                 = args.globalIndex
            /\ \A c \in 0..(Len(chapters) - 1) :
                 \A w \in 0..(chapters[c + 1].wordCount - 1) :
                    WordsBefore(c) + w = args.globalIndex => returned[1] = Position(c, w)
            /\ Len(returned) = 2 => returned[2] = args.globalIndex
            /\ WordCounts = <<3, 5, 2>>
                 => /\ args.globalIndex = 3 => returned[1] = Position(1, 0)
                    /\ args.globalIndex = 7 => returned[1] = Position(1, 4)
                    /\ args.globalIndex = 8 => returned[1] = Position(2, 0)
    /\ (args.from = "position" /\ Len(returned) >= 1
          /\ ValidPosition(Position(args.chapterIndex, args.wordIndexInChapter)))
         => /\ returned[1] = WordsBefore(args.chapterIndex) + args.wordIndexInChapter
            /\ Len(returned) = 2
                 => returned[2] = Position(args.chapterIndex, args.wordIndexInChapter)

\* C14 witness: with the word counts [3,5,2], 7 has gone to (1,4) and back
C14_Witness ==
    /\ WordCounts = <<3, 5, 2>>
    /\ args.from = "globalIndex"
    /\ args.globalIndex = 7
    /\ returned = <<Position(1, 4), 7>>

\* C15: getChapterPosition of a global index that is negative or not below
\* the total word count, an empty chapter list included, returns a valid
\* position: a chapter of the list and a word of that chapter.
C15_OutOfRangeClamps ==
    (/\ args.from = "globalIndex"
     /\ Len(returned) >= 1
     /\ args.globalIndex \notin 0..(WordsBefore(Len(chapters)) - 1))
      => /\ ~raised
         /\ ValidPosition(returned[1])

(***************************************************************************)
(* Properties of the sentence navigation.                                  *)
(***************************************************************************)
LastIndex == Len(tokens) - 1

\* indices of sentence-ending tokens within lo..hi
SentenceEnds(lo, hi) == {k \in lo..hi : k \in 0..LastIndex /\ tokens[k + 1].hasSentenceEnd}

Greatest(S) == CHOOSE k \in S : \A j \in S : j <= k
Least(S) == CHOOSE k \in S : \A j \in S : j >= k

\* where the specification puts the previous-sentence search from i: behind
\* the sentence end that precedes the sentence end before i, or at 0
PreviousStart(i) ==
    LET prior == SentenceEnds(0, i - 1)
        before == IF prior = {} THEN {} ELSE SentenceEnds(0, Greatest(prior) - 1)
    IN  IF before = {} THEN 0 ELSE Greatest(before) + 1

\* C16: findPreviousSentenceStart(tokens, i) for 0 < i <= last index returns
\* the index behind the sentence-end token of the sentence before the prior
\* sentence, 1 when that token is at index 0, and 0 when there is none.
C16_PreviousSentenceStart ==
    (/\ lastOp = "findPreviousSentenceStart"
     /\ args.currentIndex > 0
     /\ args.currentIndex <= LastIndex)
      => returned = <<PreviousStart(args.currentIndex)>>

\* C17: findNextSentenceStart(tokens, i) for an index i of the stream returns
\* j + 1 for the least j >= i below the last index with hasSentenceEnd set,
\* and the last index when there is none; the result is within [i, last
\* index], and greater than i when i is below the last index.
C17_NextSentenceStart ==
    (/\ lastOp = "findNextSentenceStart"
     /\ args.currentIndex \in 0..LastIndex)
      => LET i == args.currentIndex
             ends == SentenceEnds(i, LastIndex - 1)
         IN  /\ ~raised
             /\ returned = <<IF ends = {} THEN LastIndex ELSE Least(ends) + 1>>
             /\ returned[1] \in i..LastIndex
             /\ i < LastIndex => returned[1] > i

\* C17 witness: from index 0 the search has passed the sentence end at index
\* 1 and returned 2
C17_Witness ==
    /\ lastOp = "findNextSentenceStart"
    /\ Len(tokens) = 3
    /\ ~tokens[1].hasSentenceEnd
    /\ tokens[2].hasSentenceEnd
    /\ args.currentIndex = 0
    /\ returned = <<2>>

(***************************************************************************)
(* Properties of the recognition point.                                    *)
(***************************************************************************)

\* the table of the specification, by word length
RecognitionIndex(len) ==
    CASE len \in 0..1 -> 0
      [] len \in 2..5 -> 1
      [] len \in 6..9 -> 2
      [] len \in 10..13 -> 3
      [] len >= 14 -> 4

\* C19: recognitionIndex(word) is given by the word's length alone: 0 up to
\* length 1, 1 for 2-5, 2 for 6-9, 3 for 10-13 and 4 from 14 on, the
\* boundaries 1, 5, 6, 9, 10, 13, 14 included.
C19_RecognitionIndex ==
    (lastOp = "calculateOrpIndex") =>
        LET len == Len(args.word)
        IN  /\ returned = <<RecognitionIndex(len)>>
            /\ len = 1 => returned = <<0>>
            /\ len = 5 => returned = <<1>>
            /\ len = 6 => returned = <<2>>
            /\ len = 9 => returned = <<2>>
            /\ len = 10 => returned = <<3>>
            /\ len = 13 => returned = <<3>>
            /\ len = 14 => returned = <<4>>

\* C19 witness: a word of 14 characters has the recognition index 4
C19_Witness ==
    /\ lastOp = "calculateOrpIndex"
    /\ Len(args.word) = 14
    /\ returned = <<4>>

\* C20: split(word) of a non-empty word gives before + point + after = word,
\* point being the one character at recognitionIndex(word) and before having
\* recognitionIndex(word) characters; split of the empty word gives three
\* empty parts.
C20_SplitWord ==
    (lastOp = "splitWordAtOrp") =>
        LET word == args.word
            parts == returned[1]
        IN  IF word = ""
            THEN parts = [before |-> "", orp |-> "", after |-> ""]
            ELSE /\ parts.before \o parts.orp \o parts.after = word
                 /\ Len(parts.orp) = 1
                 /\ parts.orp = SubSeq(word, RecognitionIndex(Len(word)) + 1,
                                       RecognitionIndex(Len(word)) + 1)
                 /\ Len(parts.before) = RecognitionIndex(Len(word))

\* C20 witness: "nation" has been split into "na", "t", "ion"
C20_Witness ==
    /\ lastOp = "splitWordAtOrp"
    /\ args.word = "nation"
    /\ returned = <<[before |-> "na", orp |-> "t", after |-> "ion"]>>

(***************************************************************************)
(* Properties of the title filter.                                         *)
(***************************************************************************)
\* the words of the placeholder list as the specification gives it
PlaceholderWords ==
    {"unknown", "untitled", "chapter", "section", "part", "index", "content",
     "document"}

\* title is, case-insensitively, one of the words or a word and a space
\* followed by anything
IsPlaceholder(title, words) ==
    \E w \in words :
        \/ toLowerCase(title) = w
        \/ /\ Len(title) > Len(w)
           /\ toLowerCase(SubSeq(title, 1, Len(w) + 1)) = w \o " "

\* the filter's answers on the specification's examples
TitleExamples ==
    /\ args.title \in {"Chapter", "Section 2"} => returned = <<FALSE>>
    /\ args.title \in {"The Awakening", "Chapters"} => returned = <<TRUE>>

\* C27: the title filter rejects a heading that, case-insensitively, equals a
\* word of the list unknown, untitled, chapter, section, part, index, content,
\* document or starts with such a word and a space, and accepts every other
\* non-empty heading.
C27_PlaceholderFilter ==
    (lastOp = "isValidTitle") =>
        /\ args.title # ""
             => (returned[1] <=> ~IsPlaceholder(args.title, PlaceholderWords))
        /\ TitleExamples

\* C27 amended: the list has a ninth word, nieznany; the filter rejects the
\* empty heading and a heading that, case-insensitively, equals one of the
\* nine words or starts with one and a space, and accepts every other heading.
C27_PlaceholderFilterNineWords ==
    (lastOp = "isValidTitle") =>
        /\ returned[1] <=>
               /\ args.title # ""
               /\ ~IsPlaceholder(args.title, PlaceholderWords \cup {"nieznany"})
        /\ TitleExamples

\* C27 witness: the filter has rejected "Nieznany 2"
C27_Witness ==
    /\ lastOp = "isValidTitle"
    /\ args.title = "Nieznany 2"
    /\ returned = <<FALSE>>

(***************************************************************************)
(* Properties of the reader.                                               *)
(***************************************************************************)
\* the scheduler goes from playing to paused
PlayingToPaused == isPlaying /\ ~isPlaying'

\* the last token's index and the last chapter's index
EndPosition ==
    saveReadingPosition(Len(tokens) - 1, Len(bookData[1].chapters) - 1)

\* C25: whenever the scheduler goes from playing to paused, by Space, by
\* Escape or by a tick reaching the end of the stream, the position persisted
\* afterwards is the cursor index with the chapter index of the token at the
\* cursor (the stream has a token there: it is not empty); at the end of the
\* stream that is the last token's index with the last chapter's index.
C25_PositionPersistedOnPause ==
    [][(PlayingToPaused /\ tokens # <<>>)
         => /\ savedPosition' =
                  saveReadingPosition(currentIndex',
                                      tokens[currentIndex' + 1].chapterIndex)
            /\ HasEvent(events', "onEnd") => savedPosition' = EndPosition]_vars

\* C25 witness: a tick has ended a stream of two chapters, the position
\* persisted is the last token of the second chapter
C25_Witness ==
    /\ lastOp = "tick"
    /\ HasEvent(events, "onEnd")
    /\ ~isPlaying
    /\ Len(bookData[1].chapters) = 2
    /\ savedPosition = saveReadingPosition(Len(tokens) - 1, 1)

\* C26: J and K move the cursor by exactly one token back and forward while
\* the scheduler is paused, unless the cursor is at 0 (J) or at the last
\* index (K), where it stays; while the scheduler is playing they leave the
\* engine as it is and no callback runs.
C26_StepControls ==
    [][(lastOp' \in {"stepBackward", "stepForward"})
         => /\ isPlaying
                 => /\ UNCHANGED <<currentIndex, isPlaying, accumulatedTime,
                                   lastFrameTime, pendingFrames, savedPosition>>
                    /\ events' = <<>>
            /\ (~isPlaying /\ lastOp' = "stepBackward")
                 => currentIndex' = IF currentIndex > 0 THEN currentIndex - 1
                                    ELSE currentIndex
            /\ (~isPlaying /\ lastOp' = "stepForward")
                 => currentIndex' = IF currentIndex < Len(tokens) - 1
                                    THEN currentIndex + 1 ELSE currentIndex
            /\ currentIndex' >= 0
            /\ currentIndex' <= Max(0, Len(tokens) - 1)]_vars

\* C26 witness: K has moved the paused cursor from 1 to 2, the last index
C26_Witness ==
    /\ lastOp = "stepForward"
    /\ ~isPlaying
    /\ Len(tokens) = 3
    /\ currentIndex = 2
    /\ events = <<OnWord(2, <<2>>), OnProgress(2)>>

(***************************************************************************)
(* Properties of the loader.                                               *)
(***************************************************************************)
\* the messages of parseEpub's fatal structure errors
StructureErrors ==
    {"Invalid EPUB: Missing container.xml",
     "Invalid EPUB: Cannot find OPF file path",
     "Invalid EPUB: Cannot read OPF file"}

\* C23: a load that fails with a fatal structure error (no container.xml, no
\* package path, unreadable package document) leaves the current file, the
\* file handle, the book data and the token stream as they were before it.
C23_FailedLoadKeepsState ==
    [][(/\ lastOp' \in {"handleFile", "handleReloadSavedFile"}
        /\ raised'
        /\ Len(returned') = 1
        /\ returned'[1] \in StructureErrors)
         => UNCHANGED <<currentFile, currentFileHandle, bookData, tokens>>]_vars

\* C35: when a book whose file name or size is not the saved book's has been
\* loaded (the book info screen offers "Start Reading" although a position is
\* saved) and reading is started, the engine starts at index 0: the position
\* saved for the other book is not sought.
C35_PositionOnlyForItsBook ==
    [][(/\ lastOp = "handleFile"
        /\ ~raised
        /\ returned = <<"Start Reading">>
        /\ savedPosition # <<>>
        /\ savedPosition[1].wordIndex > 0
        /\ lastOp' = "startReading")
         => currentIndex' = 0]_vars

(***************************************************************************)
(* Properties of playback.                                                 *)
(***************************************************************************)

\* C38: during playback started by play() at cursor c, with no seekTo after
\* it, every token from c up to the end of the chunk at the cursor has been
\* in a chunk given to onWord, whatever chunk sizes were set between ticks;
\* when onEnd fires these are all the tokens from c on.
C38_NoTokenSkipped ==
    (args.from # -1) =>
        /\ \A i \in args.from..(Len(tokens) - 1) :
               i < currentIndex + currentChunkSize => i \in args.shown
        /\ HasEvent(events, "onEnd")
              => \A i \in args.from..(Len(tokens) - 1) : i \in args.shown

\* C38 witness: playback from the first token advanced by one token, then
\* the chunk size was set to 3 while playing, and every token of the longest
\* stream has been shown
C38_Witness ==
    /\ args.from = 0
    /\ Len(tokens) = MaxPlayLen
    /\ isPlaying
    /\ lastOp = "setChunkSize"
    /\ lastArg = 3
    /\ currentIndex = 1
    /\ args.shown = 0..(Len(tokens) - 1)

\* the interval of the token the cursor was at when play was called
IntervalAtPlay ==
    (60000 \div currentWpm)
      + (IF tokens[args.cursorAtPlay + 1].hasSentenceEnd THEN SmartPauseMs ELSE 0)

\* C39: after a pause and a later play, whatever the length of the pause, no
\* time has accumulated up to the first tick, which adds none, and from then
\* on no more than has passed since that tick: the cursor is where play found
\* it until a full interval of its token has passed since the first tick.
C39_PausedTimeNotCounted ==
    (isPlaying /\ args.pausedFor > 0) =>
        IF args.firstTickAt = 0
        THEN accumulatedTime = 0 /\ currentIndex = args.cursorAtPlay
        ELSE /\ accumulatedTime <= now - args.firstTickAt
             /\ now - args.firstTickAt < IntervalAtPlay
                  => currentIndex = args.cursorAtPlay

\* C39 witness: the engine was paused for a long while and played again; its
\* first tick has run and left the accumulator empty and the cursor in place
C39_Witness ==
    /\ isPlaying
    /\ args.pausedFor >= LongPause
    /\ lastOp = "tick"
    /\ args.firstTickAt = now
    /\ accumulatedTime = 0
    /\ currentIndex = args.cursorAtPlay
    /\ currentIndex > 0

====
